---- MODULE Spec2Model ----
(***************************************************************************)
(* Relationship inference on the user / transaction graph.                 *)
(*                                                                         *)
(* The store (Neo4j) is modelled as two bags of nodes and one bag of       *)
(* edges: bags, because the store itself allows several nodes with one id  *)
(* and several parallel edges with equal properties; it is MERGE that      *)
(* keeps them single.  Every session.run is one atomic query; an           *)
(* operation of the models (User.createOrUpdate, ...) is the sequence of   *)
(* its queries, run without interleaving except where the operations are  *)
(* taken query by query (SpecConcurrent, SpecSessions).                    *)
(*                                                                         *)
(* Values.  Strings are TLA+ strings and "" stands for every falsy string  *)
(* of a payload (undefined, null, "") and for a property the node does not *)
(* have (null).  Numbers are integers and 0 is the falsy number.  An       *)
(* object (address, location, payment method) is the sequence of its       *)
(* <<key, value>> pairs in key order; << >> stands for an absent object    *)
(* or list (the payloads below hold no empty object and no empty list).    *)
(***************************************************************************)
EXTENDS Integers, Sequences, FiniteSets, Bags, TLC

VARIABLES
    users,      \* bag of User nodes
    txs,        \* bag of Transaction nodes
    edges,      \* bag of relationships [kind, src, dst, val]
    now,        \* the wall clock read by new Date()
    hist,       \* the calls made since the empty store, where a history is kept
    data,       \* Graph: the data the last fetchData got from getCompleteGraph
    elements,   \* Graph: the elements given to Cytoscape, nodes then edges
    dataStats,  \* Graph: the counts kept for display
    error,      \* Graph: the error shown, "" for none
    procs,      \* the operations in flight, one for each request being served
    sessions,   \* the number of sessions of the driver that are open
    boot        \* the server process: database initialization and listening

\* the state of the Graph component
view == <<data, elements, dataStats, error>>

\* the state of the server process and of the operations it is running
run == <<procs, sessions, boot>>

vars == <<users, txs, edges, now, hist, data, elements, dataStats, error,
          procs, sessions, boot>>

---------------------------------------------------------------------------
(* Bounds *)

\* the clock takes the values 1..MaxClock
MaxClock == 2
\* calls made in one behaviour
MaxCalls == 4
\* largest maxDepth asked of findShortestPath in the model
MaxDepthArg == 3
\* largest minClusterSize asked of clusterTransactions in the model
MaxMinClusterSize == 6

---------------------------------------------------------------------------
(* JSON.stringify *)

RECURSIVE JoinFields(_)
JoinFields(o) ==
    IF o = << >> THEN ""
    ELSE LET f == "\"" \o o[1][1] \o "\":\"" \o o[1][2] \o "\""
         IN  IF Len(o) = 1 THEN f ELSE f \o "," \o JoinFields(Tail(o))

\* JSON.stringify of an object: its fields in the object's own key order
StringifyObject(o) == "{" \o JoinFields(o) \o "}"

RECURSIVE JoinObjects(_)
JoinObjects(l) ==
    IF l = << >> THEN ""
    ELSE IF Len(l) = 1 THEN StringifyObject(l[1])
         ELSE StringifyObject(l[1]) \o "," \o JoinObjects(Tail(l))

\* JSON.stringify of a list of objects
StringifyList(l) == "[" \o JoinObjects(l) \o "]"

---------------------------------------------------------------------------
(* Payload values *)

UserIds == {"u1", "u2", "u3"}
TxIds == {"t1", "t2", "t3"}

Addr1 == << <<"street", "s1">>, <<"city", "c1">> >>
\* the same address with its keys in the other order
Addr1Swapped == << <<"city", "c1">>, <<"street", "s1">> >>
Card == << <<"type", "credit_card">>, <<"last4", "1234">> >>
Bank == << <<"type", "bank_account">>, <<"last4", "7890">> >>

NoObject == << >>

\* A call of the model layer.  One record shape for every operation; the
\* fields an operation does not take are left falsy.
NoCall ==
    [op |-> "none", id |-> "", nodeId |-> "",
     email |-> "", phone |-> "", address |-> NoObject, paymentMethods |-> << >>,
     amount |-> 0, currency |-> "", timestamp |-> 0, status |-> "",
     fromUserId |-> "", toUserId |-> "",
     ipAddress |-> "", deviceId |-> "", location |-> NoObject,
     deleted |-> FALSE, failed |-> {}, threw |-> FALSE]

UserCall(id, email, phone, address, pms) ==
    [NoCall EXCEPT !.op = "User.createOrUpdate", !.id = id, !.email = email,
                   !.phone = phone, !.address = address, !.paymentMethods = pms]

---------------------------------------------------------------------------
(* The store *)

RECURSIVE SumOver(_, _)
SumOver(B, S) ==
    IF S = {} THEN 0
    ELSE LET n == CHOOSE n \in S : TRUE IN B[n] + SumOver(B, S \ {n})

\* how many nodes of bag B have this id
CountId(B, id) == SumOver(B, {n \in DOMAIN B : n.id = id})

Exists(B, id) == \E n \in DOMAIN B : n.id = id

\* SET n += props / SET n = props applied to every node of the bag that
\* upd changes (upd maps each node to what it becomes): the bag of the
\* images, copies added up
MapBag(B, upd) ==
    LET img == {upd[n] : n \in DOMAIN B}
    IN  [m \in img |-> SumOver(B, {n \in DOMAIN B : upd[n] = m})]

Edge(kind, src, dst, val) == [kind |-> kind, src |-> src, dst |-> dst, val |-> val]

\* CREATE for every edge of S, whether or not an equal one exists
CreateEdges(E, S) == E (+) SetToBag(S)

\* the edges of S put in the place of the edges of their kind that leave
\* the same node
ReplaceEdges(E, S) ==
    LET keep == {e \in DOMAIN E : \A f \in S : ~(f.kind = e.kind /\ f.src = e.src)}
    IN  [e \in keep |-> E[e]] (+) SetToBag(S)

\* MERGE (a)-[r:KIND {props}]->(b) for every row (a, b) of the match: an
\* edge is created only where no edge of that kind and with these
\* properties joins the two nodes in this direction
MergeEdges(E, S) == E (+) SetToBag({e \in S : ~BagIn(e, E)})

\* DELETE that drops only the edges leaving the node
DetachOutgoing(E, id) ==
    LET keep == {e \in DOMAIN E : e.src # id}
    IN  [e \in keep |-> E[e]]

\* DETACH DELETE of the nodes with this id: their edges go with them
Detach(E, id) ==
    LET keep == {e \in DOMAIN E : e.src # id /\ e.dst # id}
    IN  [e \in keep |-> E[e]]

RemoveId(B, id) ==
    LET keep == {n \in DOMAIN B : n.id # id}
    IN  [n \in keep |-> B[n]]

---------------------------------------------------------------------------
(* User.createOrUpdate *)

\* baseProperties: the optional properties are present only when truthy
UserProperties(id, c) ==
    [id |-> id,
     email |-> c.email,
     phone |-> c.phone,
     address |-> IF c.address # NoObject THEN StringifyObject(c.address) ELSE "",
     paymentMethods |-> IF c.paymentMethods # << >>
                        THEN StringifyList(c.paymentMethods) ELSE ""]

\* ON MATCH SET u += props: the properties given overwrite, the others stay
PlusEqUser(n, props) ==
    [id |-> props.id,
     email |-> IF props.email # "" THEN props.email ELSE n.email,
     phone |-> IF props.phone # "" THEN props.phone ELSE n.phone,
     address |-> IF props.address # "" THEN props.address ELSE n.address,
     paymentMethods |-> IF props.paymentMethods # "" THEN props.paymentMethods
                        ELSE n.paymentMethods]

\* MERGE (u:User {id: $id}) ON CREATE SET u = $properties
\*                          ON MATCH SET u += $updateProperties
MergeUserNode(U, id, props) ==
    IF Exists(U, id)
    THEN MapBag(U, [n \in DOMAIN U |-> IF n.id = id THEN PlusEqUser(n, props) ELSE n])
    ELSE U (+) SetToBag({props})

\* the match without AND u2.id <> $userId
MatchEmailSelf(U, userId, v) == {n.id : n \in {m \in DOMAIN U : m.email = v}}

\* The nodes u2 whose stored property equals the given value:
\* WHERE u2.<attr> = $value AND u2.id <> $userId
\* (a node without the property has null there, and null = x is not true)
MatchEmail(U, userId, v) == {n.id : n \in {m \in DOMAIN U : m.email = v /\ m.id # userId}}
MatchPhone(U, userId, v) == {n.id : n \in {m \in DOMAIN U : m.phone = v /\ m.id # userId}}
MatchAddress(U, userId, v) == {n.id : n \in {m \in DOMAIN U : m.address = v /\ m.id # userId}}

\* ANY(pm IN u2.paymentMethods WHERE pm = $paymentMethod): the property is
\* the one string written by JSON.stringify(paymentMethods), which the store
\* takes as the list of that single string (a store that refuses a string
\* there fails the query, and no row comes of it either); null gives no row
AnyIn(stored, v) == stored # "" /\ \E pm \in {stored} : pm = v

MatchPaymentMethod(U, userId, v) ==
    {n.id : n \in {m \in DOMAIN U : m.id # userId /\ AnyIn(m.paymentMethods, v)}}

\* the edge in both directions for every row
LinksBothWays(U, kind, userId, targets, v) ==
    IF Exists(U, userId)
    THEN {Edge(kind, userId, t, v) : t \in targets} \cup {Edge(kind, t, userId, v) : t \in targets}
    ELSE {}

\* the rows of MATCH (u1:User {id: $userId}) MATCH (u2:User) WHERE ... as
\* the edges the MERGE asks for
Links(U, kind, userId, targets, v) ==
    IF Exists(U, userId) THEN {Edge(kind, userId, t, v) : t \in targets} ELSE {}

RECURSIVE PaymentMethodLinks(_, _, _, _)
\* for (const method of userData.paymentMethods): one query per method
PaymentMethodLinks(E, U, userId, pms) ==
    IF pms = << >> THEN E
    ELSE LET s == StringifyObject(pms[1])
             E1 == MergeEdges(E, Links(U, "SHARES_PAYMENT_METHOD", userId,
                                       MatchPaymentMethod(U, userId, s), s))
         IN  PaymentMethodLinks(E1, U, userId, Tail(pms))

\* createSharedAttributeRelationships(userId, userData): the edge bag after
\* its queries, in the code's order
createSharedAttributeRelationships(E, U, userId, c) ==
    LET E1 == IF c.email # ""
              THEN MergeEdges(E, Links(U, "SHARES_EMAIL", userId,
                                       MatchEmail(U, userId, c.email), c.email))
              ELSE E
        E2 == IF c.phone # ""
              THEN MergeEdges(E1, Links(U, "SHARES_PHONE", userId,
                                        MatchPhone(U, userId, c.phone), c.phone))
              ELSE E1
        E3 == IF c.address # NoObject
              THEN LET addressStr == StringifyObject(c.address)
                   IN  MergeEdges(E2, Links(U, "SHARES_ADDRESS", userId,
                                            MatchAddress(U, userId, addressStr),
                                            addressStr))
              ELSE E2
    IN  PaymentMethodLinks(E3, U, userId, c.paymentMethods)

\* bookkeeping of a call c that worked on the node with id nodeId; a
\* behaviour ends after MaxCalls calls
Record(c, nodeId) ==
    /\ Len(hist) < MaxCalls
    /\ hist' = Append(hist, [c EXCEPT !.nodeId = nodeId])

\* const id = userData.id || uuidv4(): a fresh id is one no node has
NewIds(given, B, Ids) == IF given # "" THEN {given} ELSE {i \in Ids : ~Exists(B, i)}

\* the store after User.createOrUpdate(userData) has written node id: the
\* node merge, then the link queries
UserWrite(U, E, id, c) ==
    LET U1 == MergeUserNode(U, id, UserProperties(id, c))
    IN  [users |-> U1, edges |-> createSharedAttributeRelationships(E, U1, id, c)]

\* User.createOrUpdate(userData)
UserCreateOrUpdate(c) ==
    /\ c.op = "User.createOrUpdate"
    /\ \E id \in NewIds(c.id, users, UserIds) :
         LET w == UserWrite(users, edges, id, c)
         IN  /\ users' = w.users
             /\ edges' = w.edges
             /\ Record(c, id)
    /\ UNCHANGED <<txs, now, view, run>>

\* what delete returns: count(n) > 0 over the nodes matched
deleteResult(B, id) == CountId(B, id) > 0

\* User.delete(id)
UserDelete(id) ==
    /\ users' = RemoveId(users, id)
    /\ edges' = Detach(edges, id)
    /\ Record([NoCall EXCEPT !.op = "User.delete", !.id = id,
                             !.deleted = deleteResult(users, id)], id)
    /\ UNCHANGED <<txs, now, view, run>>

---------------------------------------------------------------------------
(* Transaction.createOrUpdate *)

Min(a, b) == IF a < b THEN a ELSE b

\* baseProperties of a transaction; t is the clock read for the timestamp
TxProperties(id, c, t) ==
    [id |-> id,
     amount |-> c.amount,
     currency |-> IF c.currency # "" THEN c.currency ELSE "USD",
     timestamp |-> IF c.timestamp # 0 THEN c.timestamp ELSE t,
     status |-> IF c.status # "" THEN c.status ELSE "completed",
     ipAddress |-> c.ipAddress,
     deviceId |-> c.deviceId,
     location |-> IF c.location # NoObject THEN StringifyObject(c.location) ELSE ""]

\* ON MATCH SET t += props
PlusEqTx(n, props) ==
    [id |-> props.id,
     amount |-> props.amount,
     currency |-> props.currency,
     timestamp |-> props.timestamp,
     status |-> props.status,
     ipAddress |-> IF props.ipAddress # "" THEN props.ipAddress ELSE n.ipAddress,
     deviceId |-> IF props.deviceId # "" THEN props.deviceId ELSE n.deviceId,
     location |-> IF props.location # "" THEN props.location ELSE n.location]

\* MERGE (t:Transaction {id: $id}) ON CREATE SET t = $properties
\*                                 ON MATCH SET t += $updateProperties
MergeTxNode(T, id, props) ==
    IF Exists(T, id)
    THEN MapBag(T, [n \in DOMAIN T |-> IF n.id = id THEN PlusEqTx(n, props) ELSE n])
    ELSE T (+) SetToBag({props})

\* MATCH (u:User {id: $userId}) MATCH (t:Transaction {id: $transactionId})
\* MERGE (u)-[r:SENT_MONEY {amount, currency}]->(t): no row, and no edge,
\* when no User has that id
SentMoney(E, U, T, id, c) ==
    IF c.fromUserId # "" /\ Exists(U, c.fromUserId) /\ Exists(T, id)
    THEN MergeEdges(E, {Edge("SENT_MONEY", c.fromUserId, id,
                             <<c.amount, IF c.currency # "" THEN c.currency ELSE "USD">>)})
    ELSE E

\* the RECEIVED_BY edge drawn from the user to the transaction
ReceivedByReversed(E, U, T, id, c) ==
    IF c.toUserId # "" /\ Exists(U, c.toUserId) /\ Exists(T, id)
    THEN MergeEdges(E, {Edge("RECEIVED_BY", c.toUserId, id,
                             <<c.amount, IF c.currency # "" THEN c.currency ELSE "USD">>)})
    ELSE E

\* MERGE (t)-[r:RECEIVED_BY {amount, currency}]->(u)
ReceivedBy(E, U, T, id, c) ==
    IF c.toUserId # "" /\ Exists(U, c.toUserId) /\ Exists(T, id)
    THEN MergeEdges(E, {Edge("RECEIVED_BY", id, c.toUserId,
                             <<c.amount, IF c.currency # "" THEN c.currency ELSE "USD">>)})
    ELSE E

\* the edge's properties without the transactionId
TransferPropertiesNoId(id, c, t) ==
    <<"", c.amount, IF c.currency # "" THEN c.currency ELSE "USD",
      IF c.timestamp # 0 THEN c.timestamp ELSE t>>

\* the properties of the TRANSFERRED_TO edge; t is the clock read at that query
TransferProperties(id, c, t) ==
    <<id, c.amount, IF c.currency # "" THEN c.currency ELSE "USD",
      IF c.timestamp # 0 THEN c.timestamp ELSE t>>

\* MATCH (sender:User {id: $fromUserId}) MATCH (receiver:User {id: $toUserId})
\* MERGE (sender)-[r:TRANSFERRED_TO {transactionId, amount, currency,
\*                                   timestamp}]->(receiver)
TransferredTo(E, U, id, c, t) ==
    IF /\ c.fromUserId # "" /\ c.toUserId # ""
       /\ Exists(U, c.fromUserId) /\ Exists(U, c.toUserId)
    THEN MergeEdges(E, {Edge("TRANSFERRED_TO", c.fromUserId, c.toUserId,
                             TransferProperties(id, c, t))})
    ELSE E

\* the match without the comparison of the values
MatchIpAny(T, id, v) == {n.id : n \in {m \in DOMAIN T : m.id # id}}

MatchIp(T, id, v) == {n.id : n \in {m \in DOMAIN T : m.ipAddress = v /\ m.id # id}}
MatchDevice(T, id, v) == {n.id : n \in {m \in DOMAIN T : m.deviceId = v /\ m.id # id}}
MatchLocation(T, id, v) == {n.id : n \in {m \in DOMAIN T : m.location = v /\ m.id # id}}

\* createTransactionLinkRelationships(transactionId, transactionData)
createTransactionLinkRelationships(E, T, id, c) ==
    LET E1 == IF c.ipAddress # ""
              THEN MergeEdges(E, Links(T, "SHARES_IP", id,
                                       MatchIp(T, id, c.ipAddress), c.ipAddress))
              ELSE E
        E2 == IF c.deviceId # ""
              THEN MergeEdges(E1, Links(T, "SHARES_DEVICE", id,
                                        MatchDevice(T, id, c.deviceId), c.deviceId))
              ELSE E1
    IN  IF c.location # NoObject
        THEN LET locationStr == StringifyObject(c.location)
             IN  MergeEdges(E2, Links(T, "SHARES_LOCATION", id,
                                      MatchLocation(T, id, locationStr), locationStr))
        ELSE E2

\* the store after Transaction.createOrUpdate(transactionData) has written
\* node id.  new Date() is read for the node (t1) and again, some queries
\* later, for the TRANSFERRED_TO edge (t2)
TxWrite(U, T, E, id, c, t1, t2) ==
    LET T1 == MergeTxNode(T, id, TxProperties(id, c, t1))
        E1 == SentMoney(E, U, T1, id, c)
        E2 == ReceivedBy(E1, U, T1, id, c)
        E3 == TransferredTo(E2, U, id, c, t2)
    IN  [txs |-> T1, edges |-> createTransactionLinkRelationships(E3, T1, id, c)]

\* what new Date() may return when the clock last showed t: t or later.
\* The clock is read (for a property of the model) only when the payload
\* gives no timestamp
Reads(c, t) == IF c.timestamp # 0 THEN {t} ELSE t .. Min(t + 1, MaxClock)

\* Transaction.createOrUpdate(transactionData)
TransactionCreateOrUpdate(c) ==
    /\ c.op = "Transaction.createOrUpdate"
    /\ \E id \in NewIds(c.id, txs, TxIds) :
       \E t1 \in Reads(c, now) :
       \E t2 \in Reads(c, t1) :
         LET w == TxWrite(users, txs, edges, id, c, t1, t2)
         IN  /\ txs' = w.txs
             /\ edges' = w.edges
             /\ now' = t2
             /\ Record(c, id)
    /\ UNCHANGED <<users, view, run>>

\* Transaction.delete(id)
TransactionDelete(id) ==
    /\ txs' = RemoveId(txs, id)
    /\ edges' = Detach(edges, id)
    /\ Record([NoCall EXCEPT !.op = "Transaction.delete", !.id = id,
                             !.deleted = deleteResult(txs, id)], id)
    /\ UNCHANGED <<users, now, view, run>>

---------------------------------------------------------------------------
(* Specifications *)

\* the transactionData of a call
TxCall(id, amount, currency, timestamp, from, to, ip, dev, loc) ==
    [NoCall EXCEPT !.op = "Transaction.createOrUpdate", !.id = id,
                   !.amount = amount, !.currency = currency,
                   !.timestamp = timestamp, !.fromUserId = from, !.toUserId = to,
                   !.ipAddress = ip, !.deviceId = dev, !.location = loc]

\* the Graph component before its first fetch: useState([]),
\* useState({ nodes: 0, edges: 0 }), useState(null)
GraphInit ==
    /\ data = [users |-> << >>, transactions |-> << >>, userRelationships |-> << >>]
    /\ elements = << >>
    /\ dataStats = [nodes |-> 0, edges |-> 0]
    /\ error = ""

\* the requests that the server may be serving at one time
Procs == {"r1", "r2"}

\* a request slot that serves nothing; todo holds the steps that an
\* operation has still to take
Idle == [call |-> NoCall, id |-> "", todo |-> << >>, threw |-> FALSE]

\* the uniqueness constraints that createConstraints creates, in the order
\* of its two queries
ConstraintNames == <<"user_id_unique", "transaction_id_unique">>

\* the server once initializeDb has created both constraints, at its first
\* attempt, and the server listens
Ready == [variant |-> "retry", phase |-> "done", attempt |-> 1, query |-> 0,
          constraints |-> {ConstraintNames[1], ConstraintNames[2]},
          listening |-> TRUE]

\* no operation in flight, no session open, the server ready
RunInit ==
    /\ procs = [p \in Procs |-> Idle]
    /\ sessions = 0
    /\ boot = Ready

\* the state after the database is set up: an empty store
Init ==
    /\ users = EmptyBag
    /\ txs = EmptyBag
    /\ edges = EmptyBag
    /\ now = 1
    /\ hist = << >>
    /\ GraphInit
    /\ RunInit

\* Users written with e-mail, phone and address, and deleted.
UserCalls ==
    {UserCall(id, "e1", "p1", NoObject, << >>) : id \in UserIds \cup {""}}
    \cup {UserCall(id, "e2", "", Addr1, << >>) : id \in {"u1", "u2"}}
    \cup {UserCall(id, "e1", "", Addr1Swapped, << >>) : id \in {"u2", "u3"}}
    \cup {UserCall("u1", "", "", NoObject, << >>)}

NextUsers ==
    \/ \E c \in UserCalls : UserCreateOrUpdate(c)
    \/ \E id \in {"u1"} : UserDelete(id)

SpecUsers == Init /\ [][NextUsers]_vars

---------------------------------------------------------------------------
(* findShortestPath *)

\* the relationships followed along their direction only: (a)-[*]->(b)
NeighboursDirected(E, S) == {e.dst : e \in {f \in DOMAIN E : f.src \in S}}

\* the nodes one relationship away from a node of S, the relationship taken
\* in either direction and of any type: (a)-[*]-(b)
Neighbours(E, S) ==
    {e.dst : e \in {f \in DOMAIN E : f.src \in S}}
    \cup {e.src : e \in {f \in DOMAIN E : f.dst \in S}}


RECURSIVE Search(_, _, _, _, _, _)
\* shortestPath((source)-[*..maxDepth]-(target)): breadth-first, one hop
\* more per round, at most maxDepth rounds; the length found, 0 for none
Search(E, frontier, seen, target, depth, maxDepth) ==
    IF depth > maxDepth THEN 0
    ELSE LET nxt == Neighbours(E, frontier) \ seen
         IN  IF target \in nxt THEN depth
             ELSE IF nxt = {} THEN 0
             ELSE Search(E, nxt, seen \cup nxt, target, depth + 1, maxDepth)

\* findShortestPath(sourceUserId, targetUserId, maxDepth)
findShortestPath(U, E, sourceUserId, targetUserId, maxDepth) ==
    IF ~(Exists(U, sourceUserId) /\ Exists(U, targetUserId))
    THEN [error |-> "One or both users not found", pathExists |-> FALSE, pathLength |-> 0]
    ELSE IF sourceUserId = targetUserId
    THEN \* the store refuses shortestPath with one node at both ends
         [error |-> "store error", pathExists |-> FALSE, pathLength |-> 0]
    ELSE LET n == Search(E, {sourceUserId}, {sourceUserId}, targetUserId, 1, maxDepth)
         IN  [error |-> "", pathExists |-> n > 0, pathLength |-> n]

\* the reply of GET /analytics/shortestPath to a query with these
\* parameters; maxDepth is << >> when the query has none, <<n>> when
\* parseInt reads n from it.  A failure of findShortestPath, whichever it
\* is, is answered 500 with the error's message as details
shortestPathRoute(U, E, sourceUserId, targetUserId, maxDepth) ==
    IF sourceUserId = "" \/ targetUserId = ""
    THEN [status |-> 400, error |-> "Missing required parameters", details |-> ""]
    ELSE LET parsedMaxDepth == IF maxDepth = << >> THEN 5 ELSE maxDepth[1]
         IN  IF parsedMaxDepth <= 0
             THEN [status |-> 400, error |-> "maxDepth must be a positive integer",
                   details |-> ""]
             ELSE LET pathResult == findShortestPath(U, E, sourceUserId,
                                                     targetUserId, parsedMaxDepth)
                  IN  IF pathResult.error # ""
                      THEN [status |-> 500, error |-> "Failed to find shortest path",
                            details |-> pathResult.error]
                      ELSE [status |-> 200, error |-> "", details |-> ""]

---------------------------------------------------------------------------
(* Specifications, continued *)

Loc1 == << <<"city", "c1">>, <<"country", "x1">> >>

\* the payloads of the transactions: every field given (txFull), currency
\* and timestamp left to their defaults (txDefaults), a sender only
\* (txSender), a receiver only (txReceiver)
txFull(id) == TxCall(id, 100, "USD", 1, "u1", "u2", "9.9.9.9", "", NoObject)
txDefaults(id) == TxCall(id, 100, "", 0, "u1", "u2", "", "", NoObject)
txSender(id) == TxCall(id, 50, "USD", 1, "u1", "", "9.9.9.9", "d1", Loc1)
txReceiver(id) == TxCall(id, 100, "USD", 1, "", "u2", "1.1.1.1", "d1", Loc1)

\* Two users, sharing an e-mail or not, and transactions between them.
SampleUserCalls ==
    {UserCall("u1", "e1", "", NoObject, << >>),
     UserCall("u2", "e1", "", NoObject, << >>),
     UserCall("u2", "e2", "", NoObject, << >>)}

SampleTxCalls == {txFull("t1"), txFull("t2"), txSender("t3"), txReceiver("t1")}

Next ==
    \/ \E c \in SampleUserCalls : UserCreateOrUpdate(c)
    \/ \E c \in SampleTxCalls : TransactionCreateOrUpdate(c)
    \/ \E id \in {"u1"} : UserDelete(id)
    \/ \E id \in {"t1"} : TransactionDelete(id)

Spec == Init /\ [][Next]_vars

\* Transactions that share ip address, device and location, written with
\* and without a timestamp, between two users.
MetaUserCalls ==
    {UserCall("u1", "", "", NoObject, << >>), UserCall("u2", "", "", NoObject, << >>)}

MetaTxCalls ==
    {txFull("t1"), txDefaults("t1"), txSender("t2"), txSender("t3"), txReceiver("t3")}

NextTx ==
    \/ \E c \in MetaUserCalls : UserCreateOrUpdate(c)
    \/ \E c \in MetaTxCalls : TransactionCreateOrUpdate(c)
    \/ \E id \in {"t1"} : TransactionDelete(id)

SpecTx == Init /\ [][NextTx]_vars

\* One transaction written again with another amount, another currency,
\* and its sender and receiver exchanged.
ReupsertCalls ==
    {txFull("t1"),
     TxCall("t1", 200, "USD", 1, "u1", "u2", "9.9.9.9", "", NoObject),
     TxCall("t1", 100, "EUR", 1, "u1", "u2", "9.9.9.9", "", NoObject),
     TxCall("t1", 100, "USD", 1, "u2", "u1", "9.9.9.9", "", NoObject)}

NextReupsert ==
    \/ \E c \in MetaUserCalls : UserCreateOrUpdate(c)
    \/ \E c \in ReupsertCalls : TransactionCreateOrUpdate(c)

SpecReupsert == Init /\ [][NextReupsert]_vars

PaymentLists == {<<Card>>, <<Card, Bank>>, <<Bank>>}

\* Users written with payment methods (the seed data's shape: one user
\* with a card, one with the card and a bank account, later users with one
\* of the two), and deleted.
PayCalls ==
    {UserCall(id, "", "", NoObject, <<Card>>) : id \in {"u1", "u3"}}
    \cup {UserCall(id, "", "", NoObject, <<Card, Bank>>) : id \in {"u1", "u2"}}
    \cup {UserCall(id, "e1", "", NoObject, <<Bank>>) : id \in {"u2", "u3"}}
    \cup {UserCall("u1", "e1", "", NoObject, << >>)}

NextPay ==
    \/ \E c \in PayCalls : UserCreateOrUpdate(c)
    \/ \E id \in {"u1"} : UserDelete(id)

SpecPay == Init /\ [][NextPay]_vars

---------------------------------------------------------------------------
(* clusterTransactions *)

validAttributes == {"ipAddress", "deviceId", "currency", "status", "amount"}

\* t.<attribute> IS NOT NULL (every transaction written here has an amount)
IsNotNull(t, attribute) == IF attribute = "amount" THEN TRUE ELSE t[attribute] # ""

\* WHERE size(transactions) > $minClusterSize
KeepClusterAbove(size, minClusterSize) == size > minClusterSize

\* WHERE size(transactions) >= $minClusterSize
KeepCluster(size, minClusterSize) == size >= minClusterSize

\* one row of the query: the transactions that hold the value v.
\* transactionIds is the list [x IN transactions | x.id] up to its order,
\* which the store chooses: the bag of its ids
Cluster(T, attribute, v) ==
    LET transactions == {t \in DOMAIN T : IsNotNull(t, attribute) /\ t[attribute] = v}
    IN  [attribute |-> attribute,
         value |-> v,
         transactionIds |-> [i \in {t.id : t \in transactions} |->
                                SumOver(T, {t \in transactions : t.id = i})],
         clusterSize |-> SumOver(T, transactions)]

RECURSIVE Orders(_)
\* the sequences that list each element of S once
Orders(S) ==
    IF S = {} THEN {<< >>}
    ELSE UNION {{<<x>> \o o : o \in Orders(S \ {x})} : x \in S}

\* ORDER BY clusterSize DESC: every order of the rows in which no row is
\* larger than one before it (rows of one size come as the store likes)
OrderByClusterSizeDesc(rows) ==
    {o \in Orders(rows) :
        \A i \in 1 .. Len(o), j \in 1 .. Len(o) :
            i < j => o[i].clusterSize >= o[j].clusterSize}

\* clusterTransactions(attribute, minClusterSize): the error thrown, or the
\* lists of clusters the call may return
clusterTransactions(T, attribute, minClusterSize) ==
    IF attribute \notin validAttributes
    THEN [error |-> "Invalid attribute", results |-> {}]
    ELSE LET shared == {t[attribute] : t \in {n \in DOMAIN T : IsNotNull(n, attribute)}}
             rows == {c \in {Cluster(T, attribute, v) : v \in shared} :
                        KeepCluster(c.clusterSize, minClusterSize)}
         IN  [error |-> "", results |-> OrderByClusterSizeDesc(rows)]

\* a transaction from u1 to u2 with these attributes
clusterTx(id, ip, dev, amount) ==
    TxCall(id, amount, "USD", 1, "u1", "u2", ip, dev, NoObject)

\* The sample data: five transactions from one ip address and a sixth from
\* another
sampleTransactions ==
    << clusterTx("t1", "1.2.3.4", "d1", 100), clusterTx("t2", "1.2.3.4", "d1", 100),
       clusterTx("t3", "1.2.3.4", "", 100), clusterTx("t4", "1.2.3.4", "", 50),
       clusterTx("t5", "1.2.3.4", "", 50), clusterTx("t6", "5.6.7.8", "", 50) >>

RECURSIVE createSampleTransactions(_)
\* the store after seedDatabase has cleared it, written the two users and
\* then the first n sample transactions, one after the other
createSampleTransactions(n) ==
    IF n = 0
    THEN LET w1 == UserWrite(EmptyBag, EmptyBag, "u1",
                             UserCall("u1", "e1", "", NoObject, << >>))
             w2 == UserWrite(w1.users, w1.edges, "u2",
                             UserCall("u2", "e2", "", NoObject, << >>))
         IN  [users |-> w2.users, txs |-> EmptyBag, edges |-> w2.edges]
    ELSE LET s == createSampleTransactions(n - 1)
             txData == sampleTransactions[n]
             w == TxWrite(s.users, s.txs, s.edges, txData.id, txData, 1, 1)
         IN  [users |-> s.users, txs |-> w.txs, edges |-> w.edges]

\* the state after the seed script has run
seedDatabase ==
    LET s == createSampleTransactions(Len(sampleTransactions))
    IN  /\ users = s.users
        /\ txs = s.txs
        /\ edges = s.edges
        /\ now = 1
        /\ hist = << >>
        /\ GraphInit
        /\ RunInit

\* Calls on the seeded store: the sixth transaction moved to the ip
\* address of the five, the first moved away from it, a transaction with
\* no ip address and no device, and deletes.
ClusterCalls ==
    {clusterTx("t6", "1.2.3.4", "", 50), clusterTx("t1", "5.6.7.8", "d1", 100),
     TxCall("t7", 50, "EUR", 1, "u1", "", "", "", NoObject)}

NextCluster ==
    \/ \E c \in ClusterCalls : TransactionCreateOrUpdate(c)
    \/ \E id \in {"t1", "t2", "t6"} : TransactionDelete(id)

SpecCluster == seedDatabase /\ [][NextCluster]_vars

---------------------------------------------------------------------------
(* The API read by the Graph: lists and connections *)

\* An object of the API is a record with the fields it has; a field that is
\* undefined or null is not in its domain.

RECURSIVE SeqOf(_)
\* the rows of a query as a list.  The store orders them (by a property the
\* model does not keep, or as it likes): one order stands for all
SeqOf(S) ==
    IF S = {} THEN << >>
    ELSE LET x == CHOOSE y \in S : TRUE IN <<x>> \o SeqOf(S \ {x})

\* node.properties: the properties the node has
Properties(n) ==
    [k \in {f \in DOMAIN n : f \in {"amount", "timestamp"} \/ n[f] # ""} |-> n[k]]

\* properties(r), by the MERGE that wrote the relationship
RelProperties(e) ==
    CASE e.kind = "SHARES_EMAIL" -> [email |-> e.val]
      [] e.kind = "SHARES_PHONE" -> [phone |-> e.val]
      [] e.kind = "SHARES_ADDRESS" -> [address |-> e.val]
      [] e.kind = "SHARES_PAYMENT_METHOD" -> [paymentMethod |-> e.val]
      [] e.kind = "SHARES_IP" -> [ipAddress |-> e.val]
      [] e.kind = "SHARES_DEVICE" -> [deviceId |-> e.val]
      [] e.kind = "SHARES_LOCATION" -> [location |-> e.val]
      [] e.kind \in {"SENT_MONEY", "RECEIVED_BY"} ->
             [amount |-> e.val[1], currency |-> e.val[2]]
      [] e.kind = "TRANSFERRED_TO" ->
             [transactionId |-> e.val[1], amount |-> e.val[2],
              currency |-> e.val[3], timestamp |-> e.val[4]]

\* User.getAll() and Transaction.getAll(), no filter given
UserGetAll(U) == SeqOf({Properties(n) : n \in DOMAIN U})
TransactionGetAll(T) == SeqOf({Properties(n) : n \in DOMAIN T})

Rel(e) == [type |-> e.kind, properties |-> RelProperties(e)]

\* Relationship.getUserConnections(userId)
getUserConnections(U, T, E, userId) ==
    LET me == Exists(U, userId)
        \* (u:User {id})-[r]->(connectedUser:User)
        userConnections ==
            {[user |-> Properties(p[2]), relationship |-> Rel(p[1])] :
                p \in {q \in (DOMAIN E) \X (DOMAIN U) :
                          me /\ q[1].src = userId /\ q[1].dst = q[2].id}}
        \* (u)-[r1:SENT_MONEY]->(t), OPTIONAL MATCH (t)-[r2:RECEIVED_BY]->(receiver)
        sent == {q \in (DOMAIN E) \X (DOMAIN T) :
                   me /\ q[1].kind = "SENT_MONEY" /\ q[1].src = userId
                      /\ q[1].dst = q[2].id}
        receivers(t) == {q \in (DOMAIN E) \X (DOMAIN U) :
                           q[1].kind = "RECEIVED_BY" /\ q[1].src = t.id
                           /\ q[1].dst = q[2].id}
        \* (u)<-[r1:RECEIVED_BY]-(t), OPTIONAL MATCH (sender)-[r2:SENT_MONEY]->(t)
        received == {q \in (DOMAIN E) \X (DOMAIN T) :
                       me /\ q[1].kind = "RECEIVED_BY" /\ q[1].dst = userId
                          /\ q[1].src = q[2].id}
        senders(t) == {q \in (DOMAIN E) \X (DOMAIN U) :
                         q[1].kind = "SENT_MONEY" /\ q[1].dst = t.id
                         /\ q[1].src = q[2].id}
        Alone(q) == [transaction |-> Properties(q[2]),
                     relationship |-> [from |-> Rel(q[1])]]
        Both(q, o) == [transaction |-> Properties(q[2]),
                       connectedUser |-> Properties(o[2]),
                       relationship |-> [from |-> Rel(q[1]), to |-> Rel(o[1])]]
        transactionConnections ==
            {Alone(q) : q \in {r \in sent : receivers(r[2]) = {}}}
            \cup UNION {{Both(q, o) : o \in receivers(q[2])} : q \in sent}
            \cup {Alone(q) : q \in {r \in received : senders(r[2]) = {}}}
            \cup UNION {{Both(q, o) : o \in senders(q[2])} : q \in received}
        \* (u)-[r:TRANSFERRED_TO]->(receiver) RETURN receiver, collect(r), and
        \* the same for the transfers that arrive
        outgoing(n) == {e \in DOMAIN E : me /\ e.kind = "TRANSFERRED_TO"
                                            /\ e.src = userId /\ e.dst = n.id}
        incoming(n) == {e \in DOMAIN E : me /\ e.kind = "TRANSFERRED_TO"
                                            /\ e.dst = userId /\ e.src = n.id}
        directTransfers ==
            {[user |-> Properties(n),
              transfers |-> SeqOf({RelProperties(e) : e \in outgoing(n)}),
              direction |-> "OUTGOING"] : n \in {m \in DOMAIN U : outgoing(m) # {}}}
            \cup {[user |-> Properties(n),
                   transfers |-> SeqOf({RelProperties(e) : e \in incoming(n)}),
                   direction |-> "INCOMING"] : n \in {m \in DOMAIN U : incoming(m) # {}}}
    IN  [user |-> [id |-> userId],
         connectedUsers |-> SeqOf(userConnections),
         transactions |-> SeqOf(transactionConnections),
         directTransfers |-> SeqOf(directTransfers)]

\* Relationship.getTransactionConnections(transactionId)
getTransactionConnections(U, T, E, transactionId) ==
    LET \* (sender:User)-[r1:SENT_MONEY]->(t:Transaction {id})
        sent == {q \in (DOMAIN E) \X (DOMAIN U) :
                   /\ Exists(T, transactionId)
                   /\ q[1].kind = "SENT_MONEY" /\ q[1].dst = transactionId
                   /\ q[1].src = q[2].id}
        \* OPTIONAL MATCH (t)-[r2:RECEIVED_BY]->(receiver:User)
        receivers == {q \in (DOMAIN E) \X (DOMAIN U) :
                        /\ q[1].kind = "RECEIVED_BY" /\ q[1].src = transactionId
                        /\ q[1].dst = q[2].id}
        Alone(q) == [sender |-> Properties(q[2]),
                     relationships |-> [sent |-> RelProperties(q[1])]]
        Both(q, o) == [sender |-> Properties(q[2]),
                       receiver |-> Properties(o[2]),
                       relationships |-> [sent |-> RelProperties(q[1]),
                                          received |-> RelProperties(o[1])]]
        involvedUsers ==
            IF receivers = {} THEN {Alone(q) : q \in sent}
            ELSE UNION {{Both(q, o) : o \in receivers} : q \in sent}
        \* (t:Transaction {id})-[r]->(relatedTx:Transaction)
        relatedTransactions ==
            {[transaction |-> Properties(q[2]), relationship |-> Rel(q[1])] :
                q \in {r \in (DOMAIN E) \X (DOMAIN T) :
                          /\ Exists(T, transactionId)
                          /\ r[1].src = transactionId /\ r[1].dst = r[2].id}}
    IN  [transaction |-> [id |-> transactionId],
         involvedUsers |-> SeqOf(involvedUsers),
         relatedTransactions |-> SeqOf(relatedTransactions)]

\* GET /relationships/user/:id
userRelationshipsRoute(U, T, E, userId) ==
    IF ~Exists(U, userId)
    THEN [status |-> 404, data |-> [error |-> "User not found"]]
    ELSE [status |-> 200, data |-> getUserConnections(U, T, E, userId)]

\* a list field of an object, [] when it is not there
ListField(o, k) == IF k \in DOMAIN o THEN o[k] ELSE << >>

HasId(o) == "id" \in DOMAIN o /\ o.id # ""

\* what getUserRelationships returns when the request fails
minimalRelationships(userId) ==
    [user |-> [id |-> userId], connectedUsers |-> << >>, transactions |-> << >>,
     directTransfers |-> << >>]

\* getUserRelationships(userId) of the frontend; fails says that the request
\* does not come back (timeout, network), and a reply other than 2xx is a
\* failure too
getUserRelationships(U, T, E, userId, fails) ==
    LET response == userRelationshipsRoute(U, T, E, userId)
    IN  IF fails \/ response.status # 200
        THEN minimalRelationships(userId)
        ELSE [user |-> IF "user" \in DOMAIN response.data THEN response.data.user
                       ELSE [id |-> userId],
              connectedUsers |-> ListField(response.data, "connectedUsers"),
              transactions |-> ListField(response.data, "transactions"),
              directTransfers |-> ListField(response.data, "directTransfers")]

\* the relationship requests made one after the other and given up at the
\* first that fails
fetchUntilFailure(U, T, E, validUsers, failed) ==
    LET bad == {i \in 1 .. Len(validUsers) : validUsers[i].id \in failed}
        n == IF bad = {} THEN Len(validUsers)
             ELSE (CHOOSE i \in bad : \A j \in bad : i <= j) - 1
    IN  [i \in 1 .. n |-> getUserRelationships(U, T, E, validUsers[i].id, FALSE)]

\* validUsers.map(user => getUserRelationships(user.id)), Promise.allSettled,
\* the fulfilled results that have a user id
fetchRelationships(U, T, E, validUsers, failed) ==
    LET userRelationshipsResults ==
            [i \in 1 .. Len(validUsers) |->
                getUserRelationships(U, T, E, validUsers[i].id,
                                     validUsers[i].id \in failed)]
        Kept(relationship) == "user" \in DOMAIN relationship /\ HasId(relationship.user)
    IN  SelectSeq(userRelationshipsResults, Kept)

\* getCompleteGraph(); failed holds "users" or "transactions" when that list
\* request fails (getUsers and getTransactions then return []), and the ids
\* of the users whose relationship request fails
getCompleteGraph(U, T, E, failed) ==
    LET usersList == IF "users" \in failed THEN << >> ELSE UserGetAll(U)
        transactionsList == IF "transactions" \in failed THEN << >>
                            ELSE TransactionGetAll(T)
        validUsers == SelectSeq(usersList, HasId)
        validTransactions == SelectSeq(transactionsList, HasId)
    IN  [users |-> validUsers,
         transactions |-> validTransactions,
         userRelationships |-> fetchRelationships(U, T, E, validUsers, failed)]

---------------------------------------------------------------------------
(* formatGraphData *)

\* { ...base, ...obj }: the fields of obj over those of base
Spread(base, obj) ==
    [k \in DOMAIN base \cup DOMAIN obj |-> IF k \in DOMAIN obj THEN obj[k] ELSE base[k]]

\* user.name || `User ${user.id}`
UserLabel(user) ==
    IF "name" \in DOMAIN user /\ user.name # "" THEN user.name ELSE "User " \o user.id

\* { data: { id: nodeId, label, type: 'user', ...user }, classes: 'user' }
UserNode(user) ==
    [data |-> Spread([id |-> "user-" \o user.id, label |-> UserLabel(user),
                      type |-> "user"], user),
     classes |-> "user"]

\* { data: { id: nodeId, label, type: 'transaction', ...transaction },
\*   classes: 'transaction' }
TransactionNode(transaction) ==
    [data |-> Spread([id |-> "transaction-" \o transaction.id,
                      label |-> "Transaction " \o transaction.id,
                      type |-> "transaction"], transaction),
     classes |-> "transaction"]

\* nodeMap: the entries [key, value] in the order they were set
NodeMapHas(nodeMap, nodeId) == \E i \in 1 .. Len(nodeMap) : nodeMap[i].key = nodeId

\* if (!nodeMap.has(nodeId)) nodeMap.set(nodeId, node)
AddNode(nodeMap, nodeId, node) ==
    IF NodeMapHas(nodeMap, nodeId) THEN nodeMap
    ELSE Append(nodeMap, [key |-> nodeId, value |-> node])

RECURSIVE AddUsers(_, _)
\* a user node for every object of the list that has an id
AddUsers(nodeMap, list) ==
    IF list = << >> THEN nodeMap
    ELSE LET user == Head(list)
         IN  AddUsers(IF HasId(user)
                      THEN AddNode(nodeMap, "user-" \o user.id, UserNode(user))
                      ELSE nodeMap,
                      Tail(list))

RECURSIVE AddTransactions(_, _)
\* a transaction node for every object of the list that has an id
AddTransactions(nodeMap, list) ==
    IF list = << >> THEN nodeMap
    ELSE LET transaction == Head(list)
         IN  AddTransactions(IF HasId(transaction)
                             THEN AddNode(nodeMap, "transaction-" \o transaction.id,
                                          TransactionNode(transaction))
                             ELSE nodeMap,
                             Tail(list))

RECURSIVE Pluck(_, _)
\* the field k of the entries of the list that have it
Pluck(list, k) ==
    IF list = << >> THEN << >>
    ELSE (IF k \in DOMAIN Head(list) THEN <<Head(list)[k]>> ELSE << >>)
         \o Pluck(Tail(list), k)

\* relationData && relationData.user && relationData.user.id
IsRelation(relationData) == "user" \in DOMAIN relationData /\ HasId(relationData.user)

RECURSIVE AddRelationNodes(_, _)
\* step 1c: the user of each relationship result, its connected users, its
\* transactions and the target users of its transfers
AddRelationNodes(nodeMap, userRelationships) ==
    IF userRelationships = << >> THEN nodeMap
    ELSE LET relationData == Head(userRelationships)
             n1 == AddUsers(nodeMap, <<relationData.user>>)
             n2 == AddUsers(n1, Pluck(ListField(relationData, "connectedUsers"), "user"))
             n3 == AddTransactions(n2, ListField(relationData, "transactions"))
             n4 == AddUsers(n3, Pluck(ListField(relationData, "directTransfers"),
                                      "targetUser"))
         IN  AddRelationNodes(IF IsRelation(relationData) THEN n4 ELSE nodeMap,
                              Tail(userRelationships))

\* The edge of one entry, as a list: << >> when the entry is skipped.
\* index is the entry's position in its list, from 0

\* the edge with an id made of the position of the entry alone
ConnectedUserEdgeByIndex(nodeMap, userId, connection, index) ==
    IF ~("user" \in DOMAIN connection /\ HasId(connection.user)
         /\ "relationship" \in DOMAIN connection)
    THEN << >>
    ELSE LET rel == connection.relationship
             relType == IF "type" \in DOMAIN rel /\ rel.type # "" THEN rel.type
                        ELSE "CONNECTED"
         IN  << [data |-> [id |-> "edge-user-" \o ToString(index),
                           source |-> "user-" \o userId,
                           target |-> "user-" \o connection.user.id,
                           label |-> relType,
                           relationshipType |-> relType,
                           properties |-> << >>],
                 classes |-> "user-user"] >>

ConnectedUserEdge(nodeMap, userId, connection, index) ==
    IF ~("user" \in DOMAIN connection /\ HasId(connection.user)
         /\ "relationship" \in DOMAIN connection)
    THEN << >>
    ELSE IF ~NodeMapHas(nodeMap, "user-" \o connection.user.id) THEN << >>
    ELSE LET rel == connection.relationship
             relType == IF "type" \in DOMAIN rel /\ rel.type # "" THEN rel.type
                        ELSE "CONNECTED"
         IN  << [data |-> [id |-> "edge-user-" \o userId \o "-" \o connection.user.id
                                  \o "-" \o ToString(index),
                           source |-> "user-" \o userId,
                           target |-> "user-" \o connection.user.id,
                           label |-> relType,
                           relationshipType |-> relType,
                           properties |-> IF "properties" \in DOMAIN rel
                                          THEN rel.properties ELSE << >>],
                 classes |-> "user-user"] >>

TransactionEdge(nodeMap, userId, txn, index) ==
    IF ~HasId(txn) THEN << >>
    ELSE IF ~NodeMapHas(nodeMap, "transaction-" \o txn.id) THEN << >>
    ELSE << [data |-> [id |-> "edge-user-" \o userId \o "-transaction-" \o txn.id
                              \o "-" \o ToString(index),
                       source |-> "user-" \o userId,
                       target |-> "transaction-" \o txn.id,
                       label |-> "INVOLVED_IN",
                       relationshipType |-> "INVOLVED_IN"],
             classes |-> "user-transaction"] >>

TransferEdge(nodeMap, userId, transfer, index) ==
    IF ~("targetUser" \in DOMAIN transfer /\ HasId(transfer.targetUser)) THEN << >>
    ELSE IF ~NodeMapHas(nodeMap, "user-" \o transfer.targetUser.id) THEN << >>
    ELSE LET relType == IF "type" \in DOMAIN transfer /\ transfer.type # ""
                        THEN transfer.type ELSE "TRANSFER"
         IN  << [data |-> Spread(
                     [id |-> "edge-transfer-" \o userId \o "-" \o transfer.targetUser.id
                             \o "-" \o ToString(index),
                      source |-> "user-" \o userId,
                      target |-> "user-" \o transfer.targetUser.id,
                      label |-> relType,
                      relationshipType |-> relType],
                     [k \in {"amount", "currency"} \cap DOMAIN transfer |-> transfer[k]]),
                 classes |-> "transfer"] >>

RECURSIVE PushNew(_, _)
\* if (!edgeMap.has(edgeId)) { elements.edges.push(edge); edgeMap.set(edgeId, true) }
\* for each edge in turn; edgeMap holds the ids of the edges pushed
PushNew(list, candidates) ==
    IF candidates = << >> THEN list
    ELSE LET c == Head(candidates)
         IN  PushNew(IF Len(c) = 0
                        \/ \E i \in 1 .. Len(list) : list[i].data.id = c[1].data.id
                     THEN list ELSE Append(list, c[1]),
                     Tail(candidates))

RECURSIVE AddRelationEdges(_, _, _)
\* phase 3: the edges of each relationship result
AddRelationEdges(list, nodeMap, userRelationships) ==
    IF userRelationships = << >> THEN list
    ELSE LET relationData == Head(userRelationships)
             userId == relationData.user.id
             connectedUsers == ListField(relationData, "connectedUsers")
             transactions == ListField(relationData, "transactions")
             directTransfers == ListField(relationData, "directTransfers")
             e1 == PushNew(list, [i \in 1 .. Len(connectedUsers) |->
                        ConnectedUserEdge(nodeMap, userId, connectedUsers[i], i - 1)])
             e2 == PushNew(e1, [i \in 1 .. Len(transactions) |->
                        TransactionEdge(nodeMap, userId, transactions[i], i - 1)])
             e3 == PushNew(e2, [i \in 1 .. Len(directTransfers) |->
                        TransferEdge(nodeMap, userId, directTransfers[i], i - 1)])
         IN  AddRelationEdges(
                 IF IsRelation(relationData) /\ NodeMapHas(nodeMap, "user-" \o userId)
                 THEN e3 ELSE list,
                 nodeMap, Tail(userRelationships))

\* formatGraphData(data), data an object with its three arrays
formatGraphData(d) ==
    LET n1 == AddUsers(<< >>, d.users)
        n2 == AddTransactions(n1, d.transactions)
        nodeMap == AddRelationNodes(n2, d.userRelationships)
    IN  [nodes |-> [i \in 1 .. Len(nodeMap) |-> nodeMap[i].value],
         edges |-> AddRelationEdges(<< >>, nodeMap, d.userRelationships)]

---------------------------------------------------------------------------
(* Graph: fetchData *)

\* the edges whose source and target are ids of the nodes
ValidEdges(formattedData) ==
    LET nodesSet == {formattedData.nodes[i].data.id : i \in 1 .. Len(formattedData.nodes)}
        Valid(edge) == edge.data.source \in nodesSet /\ edge.data.target \in nodesSet
    IN  SelectSeq(formattedData.edges, Valid)

\* fetchData, from the moment getCompleteGraph has returned d
fetchData(d) ==
    LET formattedData == formatGraphData(d)
    IN  /\ data' = d
        /\ dataStats' = [nodes |-> Len(formattedData.nodes),
                         edges |-> Len(formattedData.edges)]
        /\ IF Len(formattedData.nodes) = 0
           THEN /\ error' = "No nodes available to display in the graph"
                /\ elements' = elements
           ELSE /\ elements' = formattedData.nodes \o ValidEdges(formattedData)
                /\ error' = error

\* the Graph component fetches the graph of the store
FetchGraph(failed) ==
    /\ fetchData(getCompleteGraph(users, txs, edges, failed))
    /\ Record([NoCall EXCEPT !.op = "Graph.fetchData", !.failed = failed], "")
    /\ UNCHANGED <<users, txs, edges, now, run>>

\* Users that share an e-mail, a transaction between two of them, and the
\* graph fetched, with every request answered or one of them failing.
GraphUserCalls ==
    {UserCall(id, "e1", "", NoObject, << >>) : id \in {"u1", "u2"}}
    \cup {UserCall("u3", "e2", "", NoObject, << >>)}

NextGraph ==
    \/ \E c \in GraphUserCalls : UserCreateOrUpdate(c)
    \/ \E c \in {txFull("t1")} : TransactionCreateOrUpdate(c)
    \/ \E failed \in {{}, {"u1"}, {"u2"}} : FetchGraph(failed)

SpecGraph == Init /\ [][NextGraph]_vars

---------------------------------------------------------------------------
(* formatGraphData on data of any shape *)

\* users arrays: none, two users, one user twice, an object without id
FormatUsers ==
    << << >>,
       <<[id |-> "u1"], [id |-> "u2"]>>,
       <<[id |-> "u1", name |-> "Ann"], [id |-> "u1"]>>,
       <<[name |-> "Bob"]>> >>

\* transactions arrays
FormatTransactions ==
    << << >>, <<[id |-> "t1", amount |-> 100]>> >>

\* a connectedUsers entry
Connection(id, type) ==
    [user |-> [id |-> id], relationship |-> [type |-> type]]

\* per-user relationship results
FormatRelations ==
    << \* u1 is connected to u2
       [user |-> [id |-> "u1"],
        connectedUsers |-> <<Connection("u2", "SHARES_EMAIL")>>],
       \* the same connection of another kind
       [user |-> [id |-> "u1"],
        connectedUsers |-> <<Connection("u2", "SHARES_PHONE")>>],
       \* both connections in one result
       [user |-> [id |-> "u1"],
        connectedUsers |-> <<Connection("u2", "SHARES_EMAIL"),
                             Connection("u2", "SHARES_PHONE")>>],
       \* entries that carry their own id and their targetUser
       [user |-> [id |-> "u1"],
        connectedUsers |-> << >>,
        transactions |-> <<[id |-> "t1"]>>,
        directTransfers |-> <<[targetUser |-> [id |-> "u2"], type |-> "TRANSFERRED_TO",
                               amount |-> 100, currency |-> "USD"]>>],
       \* a user and a connected user that the users array may not have
       [user |-> [id |-> "u2"],
        connectedUsers |-> <<[user |-> [id |-> "u3"], relationship |-> [type |-> ""]]>>],
       \* entries as Relationship.getUserConnections makes them
       [user |-> [id |-> "u1"],
        connectedUsers |-> << >>,
        transactions |-> <<[transaction |-> [id |-> "t1"],
                            connectedUser |-> [id |-> "u2"],
                            relationship |-> [from |-> [type |-> "SENT_MONEY"],
                                              to |-> [type |-> "RECEIVED_BY"]]]>>,
        directTransfers |-> <<[user |-> [id |-> "u2"],
                               transfers |-> <<[transactionId |-> "t1"]>>,
                               direction |-> "OUTGOING"]>>],
       \* a result without user, and a connection without relationship
       [connectedUsers |-> <<Connection("u2", "SHARES_EMAIL")>>],
       [user |-> [id |-> "u2"],
        connectedUsers |-> <<[user |-> [id |-> "u1"]]>>] >>

MaxRelations == 2

\* the arrays numbered u and t and the relationship results numbered by f
FormatData(u, t, f) ==
    [users |-> FormatUsers[u],
     transactions |-> FormatTransactions[t],
     userRelationships |-> [i \in DOMAIN f |-> FormatRelations[f[i]]]]

\* the component as it is mounted, its effect not yet run
Mounted ==
    /\ data = [users |-> << >>, transactions |-> << >>, userRelationships |-> << >>]
    /\ elements = << >>
    /\ error = ""

\* the effect of the mounted component runs fetchData, which gets d from
\* getCompleteGraph
DisplayData(d) ==
    /\ Mounted
    /\ fetchData(d)
    /\ UNCHANGED <<users, txs, edges, now, hist, run>>

NextFormat ==
    \E u \in DOMAIN FormatUsers, t \in DOMAIN FormatTransactions, n \in 0 .. MaxRelations :
        \E f \in [1 .. n -> DOMAIN FormatRelations] : DisplayData(FormatData(u, t, f))

SpecFormat == Init /\ [][NextFormat]_vars

---------------------------------------------------------------------------
(* Operations query by query *)

\* A step of an operation: getSession() ("open"), session.close() in a
\* finally block ("close"), or one session.run; i numbers the payment
\* method of the loop's query
Q(q) == [q |-> q, i |-> 0]

\* the queries of createSharedAttributeRelationships(userId, userData)
UserLinkQueries(c) ==
    (IF c.email # "" THEN <<Q("email")>> ELSE << >>)
    \o (IF c.phone # "" THEN <<Q("phone")>> ELSE << >>)
    \o (IF c.address # NoObject THEN <<Q("address")>> ELSE << >>)
    \o [i \in 1 .. Len(c.paymentMethods) |-> [q |-> "paymentMethod", i |-> i]]

\* the link queries run before the node is merged
UserStepsLinksFirst(c) ==
    <<Q("open"), Q("open")>> \o UserLinkQueries(c)
    \o <<Q("close"), Q("mergeUser"), Q("close")>>

\* User.createOrUpdate: its session, the node merge, then
\* createSharedAttributeRelationships with a session of its own
UserSteps(c) ==
    <<Q("open"), Q("mergeUser"), Q("open")>> \o UserLinkQueries(c)
    \o <<Q("close"), Q("close")>>

\* Transaction.createOrUpdate: its session, the node merge, the edges to
\* the users, then createTransactionLinkRelationships with its own session
TxSteps(c) ==
    <<Q("open"), Q("mergeTx")>>
    \o (IF c.fromUserId # "" THEN <<Q("sentMoney")>> ELSE << >>)
    \o (IF c.toUserId # "" THEN <<Q("receivedBy")>> ELSE << >>)
    \o (IF c.fromUserId # "" /\ c.toUserId # "" THEN <<Q("transferredTo")>> ELSE << >>)
    \o <<Q("open")>>
    \o (IF c.ipAddress # "" THEN <<Q("ip")>> ELSE << >>)
    \o (IF c.deviceId # "" THEN <<Q("device")>> ELSE << >>)
    \o (IF c.location # NoObject THEN <<Q("location")>> ELSE << >>)
    \o <<Q("close"), Q("close")>>

\* the operations that read, and delete; the call's id is the id asked
\* for, the attribute of clusterTransactions, or the source user of
\* findShortestPath (its target is toUserId)
ReadSteps(c) ==
    CASE c.op \in {"User.getAll", "User.getById", "Transaction.getAll",
                   "Transaction.getById"} ->
             <<Q("open"), Q("read"), Q("close")>>
      [] c.op = "User.delete" -> <<Q("open"), Q("deleteUser"), Q("close")>>
      [] c.op = "Transaction.delete" -> <<Q("open"), Q("deleteTx"), Q("close")>>
      [] c.op = "Relationship.getUserConnections" ->
             <<Q("open"), Q("read"), Q("read"), Q("read"), Q("close")>>
      [] c.op = "Relationship.getTransactionConnections" ->
             <<Q("open"), Q("read"), Q("read"), Q("close")>>
      [] c.op = "findShortestPath" ->
             <<Q("open"), Q("userCheck"), Q("read"), Q("close")>>
      [] c.op = "clusterTransactions" ->
             \* an attribute outside the list is thrown at before the query
             IF c.id \in validAttributes THEN <<Q("open"), Q("read"), Q("close")>>
             ELSE <<Q("open"), Q("close")>>

Steps(c) ==
    CASE c.op = "User.createOrUpdate" -> UserSteps(c)
      [] c.op = "Transaction.createOrUpdate" -> TxSteps(c)
      [] OTHER -> ReadSteps(c)

\* the store after the query st of the call c on node id; t is the clock
\* read for it
RunQuery(U, T, E, st, c, id, t) ==
    LET S(U1, T1, E1) == [users |-> U1, txs |-> T1, edges |-> E1]
    IN  CASE st.q = "mergeUser" -> S(MergeUserNode(U, id, UserProperties(id, c)), T, E)
          [] st.q = "email" ->
                 S(U, T, MergeEdges(E, Links(U, "SHARES_EMAIL", id,
                                              MatchEmail(U, id, c.email), c.email)))
          [] st.q = "phone" ->
                 S(U, T, MergeEdges(E, Links(U, "SHARES_PHONE", id,
                                              MatchPhone(U, id, c.phone), c.phone)))
          [] st.q = "address" ->
                 LET addressStr == StringifyObject(c.address)
                 IN  S(U, T, MergeEdges(E, Links(U, "SHARES_ADDRESS", id,
                                                  MatchAddress(U, id, addressStr),
                                                  addressStr)))
          [] st.q = "paymentMethod" ->
                 LET pm == StringifyObject(c.paymentMethods[st.i])
                 IN  S(U, T, MergeEdges(E, Links(U, "SHARES_PAYMENT_METHOD", id,
                                                  MatchPaymentMethod(U, id, pm), pm)))
          [] st.q = "mergeTx" -> S(U, MergeTxNode(T, id, TxProperties(id, c, t)), E)
          [] st.q = "sentMoney" -> S(U, T, SentMoney(E, U, T, id, c))
          [] st.q = "receivedBy" -> S(U, T, ReceivedBy(E, U, T, id, c))
          [] st.q = "transferredTo" -> S(U, T, TransferredTo(E, U, id, c, t))
          [] st.q = "ip" ->
                 S(U, T, MergeEdges(E, Links(T, "SHARES_IP", id,
                                              MatchIp(T, id, c.ipAddress), c.ipAddress)))
          [] st.q = "device" ->
                 S(U, T, MergeEdges(E, Links(T, "SHARES_DEVICE", id,
                                              MatchDevice(T, id, c.deviceId),
                                              c.deviceId)))
          [] st.q = "location" ->
                 LET locationStr == StringifyObject(c.location)
                 IN  S(U, T, MergeEdges(E, Links(T, "SHARES_LOCATION", id,
                                                  MatchLocation(T, id, locationStr),
                                                  locationStr)))
          [] st.q = "deleteUser" -> S(RemoveId(U, id), T, Detach(E, id))
          [] st.q = "deleteTx" -> S(U, RemoveId(T, id), Detach(E, id))
          [] OTHER -> S(U, T, E)

NumSteps(todo, q) == Cardinality({i \in 1 .. Len(todo) : todo[i].q = q})

\* only the session opened last is closed
SessionsHeldInner(todo) == 1

\* the sessions that an operation with these steps ahead of it holds
SessionsHeld(todo) == NumSteps(todo, "close") - NumSteps(todo, "open")

\* what is left to do when a query has thrown or the operation returns
\* early: the finally blocks of the sessions held
Unwind(todo) == [i \in 1 .. SessionsHeld(todo) |-> Q("close")]

\* throw new Error('One or both users not found') after the first query
EarlyThrow(st, c) ==
    st.q = "userCheck" /\ ~(Exists(users, c.id) /\ Exists(users, c.toUserId))

\* a request arrives and its operation starts; a behaviour ends after
\* MaxCalls calls
Begin(p, c) ==
    /\ procs[p] = Idle
    /\ Len(hist) + Cardinality({q \in Procs : procs[q] # Idle}) < MaxCalls
    /\ procs' = [procs EXCEPT ![p] = [call |-> c, id |-> c.id, todo |-> Steps(c),
                                      threw |-> c.op = "clusterTransactions"
                                                /\ c.id \notin validAttributes]]
    /\ UNCHANGED <<users, txs, edges, now, hist, view, sessions, boot>>

\* the operation goes on to what its step left to do and, with nothing
\* left, returns
Continue(p, rest, threw) ==
    IF rest = << >>
    THEN /\ procs' = [procs EXCEPT ![p] = Idle]
         /\ hist' = Append(hist, [procs[p].call EXCEPT !.nodeId = procs[p].id,
                                                       !.threw = threw])
    ELSE /\ procs' = [procs EXCEPT ![p].todo = rest, ![p].threw = threw]
         /\ hist' = hist

\* the next step of the operation of request p
Advance(p) ==
    /\ procs[p].todo # << >>
    /\ LET st == Head(procs[p].todo)
           c == procs[p].call
       IN  \E t \in IF st.q \in {"mergeTx", "transferredTo"} THEN Reads(c, now) ELSE {now} :
             LET w == RunQuery(users, txs, edges, st, c, procs[p].id, t)
             IN  /\ users' = w.users
                 /\ txs' = w.txs
                 /\ edges' = w.edges
                 /\ now' = t
                 /\ sessions' = CASE st.q = "open" -> sessions + 1
                                  [] st.q = "close" -> sessions - 1
                                  [] OTHER -> sessions
                 /\ IF EarlyThrow(st, c)
                    THEN Continue(p, Unwind(Tail(procs[p].todo)), TRUE)
                    ELSE Continue(p, Tail(procs[p].todo), procs[p].threw)
    /\ UNCHANGED <<view, boot>>

\* the query that the operation of request p is about to run fails
Throw(p) ==
    /\ procs[p].todo # << >>
    /\ Head(procs[p].todo).q \notin {"open", "close"}
    /\ Continue(p, Unwind(Tail(procs[p].todo)), TRUE)
    /\ UNCHANGED <<users, txs, edges, now, view, sessions, boot>>

\* Two users with one e-mail and a transaction between them, written by
\* requests served at the same time.
ConcurrentCalls ==
    {UserCall("u1", "e1", "", NoObject, << >>),
     UserCall("u2", "e1", "", NoObject, << >>),
     txFull("t1")}

NextConcurrent ==
    \/ \E p \in Procs, c \in ConcurrentCalls : Begin(p, c)
    \/ \E p \in Procs : Advance(p)

SpecConcurrent == Init /\ [][NextConcurrent]_vars

\* a call of an operation that takes an id, or an attribute
ReadCall(op, id) == [NoCall EXCEPT !.op = op, !.id = id]

\* Every operation that opens a session: the two writes, the reads and
\* deletes of both models, the two connection queries, a path search
\* between stored users and one to a user that is not stored, a clustering
\* by an attribute of the list and by one outside it.  Any query may fail.
SessionCalls ==
    {UserCall("u1", "e1", "", NoObject, << >>),
     TxCall("t1", 100, "USD", 1, "u1", "", "9.9.9.9", "", NoObject)}
    \cup {ReadCall(op, "u1") : op \in {"User.getAll", "User.getById", "User.delete",
                                        "Relationship.getUserConnections"}}
    \cup {ReadCall(op, "t1") : op \in {"Transaction.getAll", "Transaction.getById",
                                        "Transaction.delete",
                                        "Relationship.getTransactionConnections"}}
    \cup {[ReadCall("findShortestPath", "u1") EXCEPT !.toUserId = to] :
             to \in {"u1", "u2"}}
    \cup {ReadCall("clusterTransactions", a) : a \in {"ipAddress", "location"}}

\* the operations started and finished in one behaviour of SpecSessions
MaxSessionCalls == 2

Busy == {q \in Procs : procs[q] # Idle}

BeginSession(p, c) ==
    /\ Len(hist) + Cardinality(Busy) < MaxSessionCalls
    /\ Begin(p, c)

NextSessions ==
    \/ \E p \in Procs, c \in SessionCalls : BeginSession(p, c)
    \/ \E p \in Procs : Advance(p)
    \/ \E p \in Procs : Throw(p)

SpecSessions == Init /\ [][NextSessions]_vars

---------------------------------------------------------------------------
(* Starting the server *)

\* The two db/neo4jConnection modules of the repository.  "once": the
\* module the server requires; initializeDb calls createConstraints and
\* does not wait for it, createConstraints logs an error and returns.
\* "retry": initializeDb is async and awaits createConstraintsWithRetry.
Variants == {"once", "retry"}

\* createConstraintsWithRetry(retries = 5, delay = 3000)
retries == 5

\* a process that has just been started, on a database without constraints
Started(v) == [variant |-> v, phase |-> "start", attempt |-> 0, query |-> 0,
               constraints |-> {}, listening |-> FALSE]

InitBoot ==
    /\ users = EmptyBag
    /\ txs = EmptyBag
    /\ edges = EmptyBag
    /\ now = 1
    /\ hist = << >>
    /\ GraphInit
    /\ procs = [p \in Procs |-> Idle]
    /\ sessions = 0
    /\ boot \in {Started(v) : v \in Variants}

\* initializeDb(), as far as it runs before control returns to the server
\* script: the driver is made, createConstraints has opened its session and
\* sent its first query
initializeDb ==
    /\ boot.phase = "start"
    /\ boot' = [boot EXCEPT !.phase = "creating", !.attempt = 1, !.query = 1]
    /\ sessions' = sessions + 1
    /\ UNCHANGED <<users, txs, edges, now, hist, view, procs>>

\* app.listen(PORT): the statement after initializeDb() and the routes;
\* nothing awaits the promise of initializeDb
appListen ==
    /\ boot.phase = "creating"
    /\ ~boot.listening
    /\ boot' = [boot EXCEPT !.listening = TRUE]
    /\ UNCHANGED <<users, txs, edges, now, hist, view, procs, sessions>>

\* a CREATE CONSTRAINT ... IF NOT EXISTS query has succeeded; a promise
\* settles only after the server script has run to its end
ConstraintCreated ==
    /\ boot.phase = "creating"
    /\ boot.listening
    /\ LET made == boot.constraints \cup {ConstraintNames[boot.query]}
       IN  IF boot.query < Len(ConstraintNames)
           THEN /\ boot' = [boot EXCEPT !.constraints = made, !.query = @ + 1]
                /\ UNCHANGED sessions
           ELSE /\ boot' = [boot EXCEPT !.constraints = made, !.query = 0,
                                        !.phase = "done"]
                /\ sessions' = sessions - 1
    /\ UNCHANGED <<users, txs, edges, now, hist, view, procs>>

\* a query of createConstraints has failed: finally closes the session;
\* "once" logs the error and goes on; "retry" waits for the delay, or at
\* the last attempt throws into initializeDb, which calls process.exit(1)
ConstraintFailed ==
    /\ boot.phase = "creating"
    /\ boot.listening
    /\ sessions' = sessions - 1
    /\ boot' = CASE boot.variant = "once" ->
                      [boot EXCEPT !.query = 0, !.phase = "failed"]
                 [] boot.attempt = retries ->
                      [boot EXCEPT !.query = 0, !.phase = "exited",
                                   !.listening = FALSE]
                 [] OTHER ->
                      [boot EXCEPT !.query = 0, !.phase = "waiting"]
    /\ UNCHANGED <<users, txs, edges, now, hist, view, procs>>

\* the delay is over: the next turn of the loop calls createConstraints
RetryConstraints ==
    /\ boot.phase = "waiting"
    /\ boot' = [boot EXCEPT !.phase = "creating", !.attempt = @ + 1, !.query = 1]
    /\ sessions' = sessions + 1
    /\ UNCHANGED <<users, txs, edges, now, hist, view, procs>>

\* the write requests sent to the server while it starts
BootCalls == {UserCall("u1", "e1", "", NoObject, << >>), txSender("t1")}

\* POST /users or POST /transactions handled: the server is listening
HandleWrite ==
    /\ boot.listening
    /\ \/ \E c \in BootCalls : c.op = "User.createOrUpdate" /\ UserCreateOrUpdate(c)
       \/ \E c \in BootCalls : c.op = "Transaction.createOrUpdate"
                                 /\ TransactionCreateOrUpdate(c)

NextBoot ==
    \/ initializeDb
    \/ appListen
    \/ ConstraintCreated
    \/ ConstraintFailed
    \/ RetryConstraints
    \/ HandleWrite

SpecBoot == InitBoot /\ [][NextBoot]_vars

---------------------------------------------------------------------------
(* Reading a state *)

\* the call a step has just made, when the step is a call
IsCall == Len(hist') = Len(hist) + 1
Made == hist'[Len(hist')]
Last == hist[Len(hist)]

\* number of edges of this kind from a to b, whatever their properties
NumEdges(E, kind, a, b) ==
    SumOver(E, {e \in DOMAIN E : e.kind = kind /\ e.src = a /\ e.dst = b})

\* number of edges of any kind between a and b, in either direction
NumBetween(E, a, b) ==
    SumOver(E, {e \in DOMAIN E : (e.src = a /\ e.dst = b) \/ (e.src = b /\ e.dst = a)})

\* the edges a step has added: those with more copies after than before
Added(E, F) == {e \in DOMAIN F : CopiesIn(e, F) > CopiesIn(e, E)}

UserShareKinds == {"SHARES_EMAIL", "SHARES_PHONE", "SHARES_ADDRESS", "SHARES_PAYMENT_METHOD"}

\* the stored nodes with this id
Stored(B, id) == {n \in DOMAIN B : n.id = id}

---------------------------------------------------------------------------
(* C1 *)

\* C1 (asymmetry): when A is written with e-mail e while B, not linked to A
\* by any edge, is stored with e, the write leaves exactly one SHARES_EMAIL
\* edge A->B and none B->A; and a step that adds a SHARES_* edge between
\* users is a User.createOrUpdate of the edge's source, so a B->A edge
\* appears only when B itself is written.
C1_Step ==
    /\ \A a \in UserIds, b \in UserIds :
         ( /\ IsCall /\ Made.op = "User.createOrUpdate" /\ Made.nodeId = a
           /\ a # b /\ Made.email # ""
           /\ \E n \in Stored(users, b) : n.email = Made.email
           /\ NumBetween(edges, a, b) = 0 )
         => /\ NumEdges(edges', "SHARES_EMAIL", a, b) = 1
            /\ CopiesIn(Edge("SHARES_EMAIL", a, b, Made.email), edges') = 1
            /\ NumEdges(edges', "SHARES_EMAIL", b, a) = 0
    /\ \A e \in Added(edges, edges') :
         e.kind \in UserShareKinds
         => IsCall /\ Made.op = "User.createOrUpdate" /\ Made.nodeId = e.src

C1_Asymmetry == [][C1_Step]_vars

\* A has just been written with B's e-mail: one edge A->B, nothing else
\* between the two
C1_Witness ==
    /\ hist # << >>
    /\ Last.op = "User.createOrUpdate" /\ Last.email # ""
    /\ \E b \in UserIds \ {Last.nodeId} :
         /\ \E n \in Stored(users, b) : n.email = Last.email
         /\ CopiesIn(Edge("SHARES_EMAIL", Last.nodeId, b, Last.email), edges) = 1
         /\ NumBetween(edges, Last.nodeId, b) = 1

---------------------------------------------------------------------------
(* C2 *)

\* C2 (user idempotence): a User.createOrUpdate whose payload carries an id
\* and equals the payload of the call before it changes neither the bag of
\* User nodes nor the bag of edges (the timestamps createdAt / updatedAt are
\* not part of the model's nodes); there is one node with that id and no
\* SHARES_* edge of that node has a second copy.
C2_Step ==
    ( /\ IsCall /\ hist # << >>
      /\ Made.op = "User.createOrUpdate" /\ Made.id # ""
      /\ Made = Last )
    => /\ users' = users
       /\ edges' = edges
       /\ CountId(users', Made.id) = 1
       /\ \A e \in DOMAIN edges' : e.src = Made.id => CopiesIn(e, edges') = 1

C2_UserIdempotence == [][C2_Step]_vars

\* the same payload has been written twice in a row and the node has links
C2_Witness ==
    /\ Len(hist) >= 2
    /\ Last.op = "User.createOrUpdate" /\ Last.id # ""
    /\ Last = hist[Len(hist) - 1]
    /\ \E e \in DOMAIN edges : e.src = Last.id /\ e.kind \in UserShareKinds

---------------------------------------------------------------------------
(* C5 *)

\* the stored form of the payload's value for an attribute, "" when the
\* payload does not populate it
PayloadValue(c, kind) ==
    CASE kind = "SHARES_EMAIL" -> c.email
      [] kind = "SHARES_PHONE" -> c.phone
      [] kind = "SHARES_ADDRESS" ->
            IF c.address # NoObject THEN StringifyObject(c.address) ELSE ""

StoredValue(n, kind) ==
    CASE kind = "SHARES_EMAIL" -> n.email
      [] kind = "SHARES_PHONE" -> n.phone
      [] kind = "SHARES_ADDRESS" -> n.address

AttributeKinds == {"SHARES_EMAIL", "SHARES_PHONE", "SHARES_ADDRESS"}

\* C5 (exactness for e-mail, phone, address): after User.createOrUpdate(u),
\* for each of the three attributes the payload populates, every other
\* stored user whose value equals the payload's has an edge of that kind
\* from u carrying the value; and every edge of these kinds the call adds
\* goes from u to another user whose stored value is the payload's
\* (populated) value.
C5_Step ==
    (IsCall /\ Made.op = "User.createOrUpdate")
    => /\ \A k \in AttributeKinds, v \in UserIds :
            ( /\ PayloadValue(Made, k) # "" /\ v # Made.nodeId
              /\ \E n \in Stored(users', v) : StoredValue(n, k) = PayloadValue(Made, k) )
            => BagIn(Edge(k, Made.nodeId, v, PayloadValue(Made, k)), edges')
       /\ \A e \in Added(edges, edges') :
            e.kind \in AttributeKinds
            => /\ e.src = Made.nodeId /\ e.dst # e.src
               /\ PayloadValue(Made, e.kind) # ""
               /\ e.val = PayloadValue(Made, e.kind)
               /\ \E n \in Stored(users', e.dst) :
                    StoredValue(n, e.kind) = PayloadValue(Made, e.kind)

C5_AttributeLinks == [][C5_Step]_vars

\* a write that linked its user to two others through one attribute while
\* a third attribute of the payload stayed absent
C5_Witness ==
    /\ hist # << >>
    /\ Last.op = "User.createOrUpdate"
    /\ \E k \in AttributeKinds, j \in AttributeKinds :
         /\ PayloadValue(Last, j) = ""
         /\ Cardinality({e \in DOMAIN edges :
                e.kind = k /\ e.src = Last.nodeId /\ e.val = PayloadValue(Last, k)}) = 2

---------------------------------------------------------------------------
(* C6 *)

\* the stored paymentMethods text is the text of a list that holds a method
\* with the serialized form of m
HoldsMethod(stored, m) ==
    \E l \in PaymentLists :
        /\ stored = StringifyList(l)
        /\ \E i \in 1 .. Len(l) : StringifyObject(l[i]) = StringifyObject(m)

\* C6 (payment-method links): after User.createOrUpdate(u) with method m in
\* its paymentMethods, every other stored user whose payment-method list
\* holds a method with m's serialized form has a SHARES_PAYMENT_METHOD edge
\* from u.
C6_Step ==
    (IsCall /\ Made.op = "User.createOrUpdate")
    => \A i \in 1 .. Len(Made.paymentMethods), v \in UserIds \ {Made.nodeId} :
         (\E n \in Stored(users', v) : HoldsMethod(n.paymentMethods, Made.paymentMethods[i]))
         => BagIn(Edge("SHARES_PAYMENT_METHOD", Made.nodeId, v,
                       StringifyObject(Made.paymentMethods[i])), edges')

C6_PaymentMethodLinks == [][C6_Step]_vars

---------------------------------------------------------------------------
(* C3 *)

\* C3 (transaction idempotence): a Transaction.createOrUpdate whose payload
\* carries an id and equals the payload of the call before it leaves one
\* Transaction node with that id and the edge bag as it was.
C3_Step ==
    ( /\ IsCall /\ hist # << >>
      /\ Made.op = "Transaction.createOrUpdate" /\ Made.id # ""
      /\ Made = Last )
    => /\ CountId(txs', Made.id) = 1
       /\ edges' = edges

C3_TransactionIdempotence == [][C3_Step]_vars

---------------------------------------------------------------------------
(* C4 *)

\* U1 (e1), U2 (e1), T1 (U1 -> U2, 100 USD, 9.9.9.9) on the empty store
ScenarioHist ==
    << [UserCall("u1", "e1", "", NoObject, << >>) EXCEPT !.nodeId = "u1"],
       [UserCall("u2", "e1", "", NoObject, << >>) EXCEPT !.nodeId = "u2"],
       [txFull("t1") EXCEPT !.nodeId = "t1"] >>

ScenarioDone == hist = ScenarioHist

ScenarioTransferEdges ==
    /\ BagIn(Edge("SENT_MONEY", "u1", "t1", <<100, "USD">>), edges)
    /\ BagIn(Edge("RECEIVED_BY", "t1", "u2", <<100, "USD">>), edges)
    /\ \E e \in DOMAIN edges :
         /\ e.kind = "TRANSFERRED_TO" /\ e.src = "u1" /\ e.dst = "u2"
         /\ e.val[1] = "t1" /\ e.val[2] = 100

\* C4 as stated: after the scenario the store holds SHARES_EMAIL U1->U2 and
\* not U2->U1, and the three transfer edges.
C4_AsStated ==
    ScenarioDone
    => /\ NumEdges(edges, "SHARES_EMAIL", "u1", "u2") >= 1
       /\ NumEdges(edges, "SHARES_EMAIL", "u2", "u1") = 0
       /\ ScenarioTransferEdges

\* C4 (end-to-end scenario), amended: after the scenario the store holds
\* SHARES_EMAIL U2->U1 (from the user written second to the one written
\* first) and not U1->U2, SENT_MONEY U1->T1, RECEIVED_BY T1->U2 and
\* TRANSFERRED_TO U1->U2 with transactionId T1 and amount 100.
C4_EndToEnd ==
    ScenarioDone
    => /\ CopiesIn(Edge("SHARES_EMAIL", "u2", "u1", "e1"), edges) = 1
       /\ NumEdges(edges, "SHARES_EMAIL", "u1", "u2") = 0
       /\ ScenarioTransferEdges

C4_Witness == ScenarioDone /\ NumEdges(edges, "SHARES_EMAIL", "u2", "u1") = 1

---------------------------------------------------------------------------
(* C7 *)

\* C7 (participant edges): after every Transaction.createOrUpdate, a given
\* fromUserId has a SENT_MONEY edge to the transaction, a given toUserId a
\* RECEIVED_BY edge from it, and when both are given a TRANSFERRED_TO edge
\* with the transactionId joins them.
C7_Step ==
    (IsCall /\ Made.op = "Transaction.createOrUpdate")
    => /\ Made.fromUserId # ""
            => NumEdges(edges', "SENT_MONEY", Made.fromUserId, Made.nodeId) >= 1
       /\ Made.toUserId # ""
            => NumEdges(edges', "RECEIVED_BY", Made.nodeId, Made.toUserId) >= 1
       /\ (Made.fromUserId # "" /\ Made.toUserId # "")
            => \E e \in DOMAIN edges' :
                 /\ e.kind = "TRANSFERRED_TO" /\ e.val[1] = Made.nodeId
                 /\ e.src = Made.fromUserId /\ e.dst = Made.toUserId

C7_ParticipantEdges == [][C7_Step]_vars

---------------------------------------------------------------------------
(* C8 *)

Calls == 1 .. Len(hist)

\* user u was written before call i and has not been deleted since
Live(u, i) ==
    \E k \in Calls :
        /\ k < i /\ hist[k].op = "User.createOrUpdate" /\ hist[k].nodeId = u
        /\ \A m \in Calls : m > k => ~(hist[m].op = "User.delete" /\ hist[m].id = u)

\* the transactions written from s to r while both users were stored
Transfers(s, r) ==
    {i \in Calls :
        /\ hist[i].op = "Transaction.createOrUpdate"
        /\ hist[i].fromUserId = s /\ hist[i].toUserId = r
        /\ Live(s, i) /\ Live(r, i)}

\* C8 (distinct transfers never collapse): for stored users s and r (not
\* deleted meanwhile), every transaction written from s to r has its own
\* TRANSFERRED_TO edge s->r carrying its transactionId, so the pair has at
\* least as many such edges as distinct transactions were written between
\* them, also when amount, currency and timestamp are equal.
C8_DistinctTransfers ==
    \A s \in UserIds, r \in UserIds :
        /\ \A i \in Transfers(s, r) :
             \E e \in DOMAIN edges :
                /\ e.kind = "TRANSFERRED_TO" /\ e.src = s /\ e.dst = r
                /\ e.val[1] = hist[i].nodeId
        /\ NumEdges(edges, "TRANSFERRED_TO", s, r)
             >= Cardinality({hist[i].nodeId : i \in Transfers(s, r)})

\* two transactions with different ids and equal amount, currency and
\* timestamp were written between the same two users
C8_Witness ==
    \E i \in Transfers("u1", "u2"), j \in Transfers("u1", "u2") :
        /\ hist[i].nodeId # hist[j].nodeId
        /\ hist[i].amount = hist[j].amount /\ hist[i].timestamp = hist[j].timestamp
        /\ NumEdges(edges, "TRANSFERRED_TO", "u1", "u2") = 2

---------------------------------------------------------------------------
(* C9 *)

MetaKinds == {"SHARES_IP", "SHARES_DEVICE", "SHARES_LOCATION"}

\* the payload's value for a metadata field, in its stored form
MetaValue(c, kind) ==
    CASE kind = "SHARES_IP" -> c.ipAddress
      [] kind = "SHARES_DEVICE" -> c.deviceId
      [] kind = "SHARES_LOCATION" ->
            IF c.location # NoObject THEN StringifyObject(c.location) ELSE ""

\* the calls that wrote a transaction which was written once and never deleted
WrittenOnce ==
    {i \in Calls :
        /\ hist[i].op = "Transaction.createOrUpdate"
        /\ \A j \in Calls \ {i} :
             ~(hist[j].op \in {"Transaction.createOrUpdate", "Transaction.delete"}
               /\ hist[j].nodeId = hist[i].nodeId)}

\* C9 (metadata links follow write order): of two transactions each written
\* once, the later-written has exactly one SHARES_IP (SHARES_DEVICE,
\* SHARES_LOCATION) edge to the earlier-written one when their values for
\* the field are equal and present, and there is no such edge in the other
\* direction; when the values differ or one is absent there is no such edge
\* between them.
C9_MetadataLinks ==
    \A i \in WrittenOnce, j \in WrittenOnce : \A k \in MetaKinds :
        i < j =>
          LET early == hist[i].nodeId
              late == hist[j].nodeId
              share == MetaValue(hist[i], k) # "" /\ MetaValue(hist[i], k) = MetaValue(hist[j], k)
          IN  /\ NumEdges(edges, k, early, late) = 0
              /\ share => /\ NumEdges(edges, k, late, early) = 1
                          /\ BagIn(Edge(k, late, early, MetaValue(hist[j], k)), edges)
              /\ ~share => NumEdges(edges, k, late, early) = 0

\* three transactions with one ip address, each written once: three edges
C9_Witness ==
    /\ Cardinality(WrittenOnce) = 3
    /\ \A i \in WrittenOnce : hist[i].ipAddress = "9.9.9.9"
    /\ SumOver(edges, {e \in DOMAIN edges : e.kind = "SHARES_IP"}) = 3

---------------------------------------------------------------------------
(* C10 *)

RECURSIVE WalkEnds(_, _)
\* the nodes at the end of a walk of n relationships from s, each taken in
\* either direction
WalkEnds(s, n) ==
    IF n = 0 THEN {s}
    ELSE LET W == WalkEnds(s, n - 1)
         IN  {x \in UserIds \cup TxIds :
                \E e \in DOMAIN edges : \E w \in W :
                    (e.src = w /\ e.dst = x) \/ (e.dst = w /\ e.src = x)}

\* the length of the shortest connection between s and t, 0 when none has
\* at most MaxDepthArg + 1 hops
Hops(s, t) ==
    LET ns == {n \in 1 .. MaxDepthArg + 1 : t \in WalkEnds(s, n)}
    IN  IF ns = {} THEN 0 ELSE CHOOSE n \in ns : \A m \in ns : n <= m

\* C10 (shortest path bound): for stored users s # t whose shortest
\* connection has N hops, findShortestPath answers pathExists false for
\* every maxDepth below N (maxDepth = N - 1 among them) and pathExists true
\* with pathLength N for every maxDepth >= N; after the end-to-end scenario
\* findShortestPath(U1, U2, 1) answers pathLength 1.
C10_ShortestPathBound ==
    /\ \A s \in UserIds, t \in UserIds :
         (s # t /\ Exists(users, s) /\ Exists(users, t) /\ Hops(s, t) > 0)
         => \A d \in 1 .. MaxDepthArg :
              LET res == findShortestPath(users, edges, s, t, d)
              IN  /\ res.error = ""
                  /\ d < Hops(s, t) => ~res.pathExists
                  /\ d >= Hops(s, t) => res.pathExists /\ res.pathLength = Hops(s, t)
    /\ ScenarioDone
         => LET res == findShortestPath(users, edges, "u1", "u2", 1)
            IN  res.pathExists /\ res.pathLength = 1

\* two users three hops apart: no path at maxDepth 2, length 3 at maxDepth 3
C10_Witness ==
    \E s \in UserIds, t \in UserIds :
        /\ Exists(users, s) /\ Exists(users, t) /\ Hops(s, t) = 3
        /\ ~findShortestPath(users, edges, s, t, 2).pathExists
        /\ findShortestPath(users, edges, s, t, 3).pathLength = 3

---------------------------------------------------------------------------
(* C11 *)

\* a relationship of any type joins a and b in this direction
Joined(a, b) == \E e \in DOMAIN edges : e.src = a /\ e.dst = b

\* C11 (path finding ignores direction and kind): for stored users A # B
\* and every maxDepth, findShortestPath(A, B, maxDepth) and
\* findShortestPath(B, A, maxDepth) agree on pathExists and pathLength; a
\* relationship of any type stored only as B->A is a path of length 1 from
\* A; and two users joined to one Transaction node, whichever way the two
\* relationships point, are at most 2 hops apart.
C11_Undirected ==
    \A a \in UserIds, b \in UserIds :
        (a # b /\ Exists(users, a) /\ Exists(users, b))
        => /\ \A d \in 1 .. MaxDepthArg :
                LET ab == findShortestPath(users, edges, a, b, d)
                    ba == findShortestPath(users, edges, b, a, d)
                IN  /\ ab.pathExists = ba.pathExists
                    /\ ab.pathLength = ba.pathLength
           /\ Joined(b, a)
                => LET ab == findShortestPath(users, edges, a, b, 1)
                   IN  ab.pathExists /\ ab.pathLength = 1
           /\ \A t \in TxIds :
                ((Joined(a, t) \/ Joined(t, a)) /\ (Joined(b, t) \/ Joined(t, b)))
                => LET ab == findShortestPath(users, edges, a, b, 2)
                   IN  /\ ab.pathExists
                       /\ ab.pathLength = IF Joined(a, b) \/ Joined(b, a) THEN 1 ELSE 2

\* u1 and u2 joined only through the transaction t3 (u1 sent it, u2
\* received it, in two separate calls): two hops, from either end
C11_Witness ==
    /\ Exists(users, "u1") /\ Exists(users, "u2")
    /\ ~Joined("u2", "u1") /\ ~Joined("u1", "u2")
    /\ Joined("u1", "t3") /\ Joined("t3", "u2")
    /\ findShortestPath(users, edges, "u2", "u1", 2).pathLength = 2
    /\ ~findShortestPath(users, edges, "u2", "u1", 1).pathExists

---------------------------------------------------------------------------
(* C12 *)

\* C12 (path finder precondition): a query naming a user that is not stored
\* is answered with a not-found condition: not as a success, not as a
\* validation failure (400), not as the failure of a store query is
\* answered (500), and saying which of the two identifiers is missing, so
\* that a missing source and a missing target are answered differently.
C12_NotFound ==
    \A s \in UserIds, t \in UserIds :
        (s # t /\ ~Exists(users, s) /\ Exists(users, t))
        => \A d \in 1 .. MaxDepthArg :
             LET noSource == shortestPathRoute(users, edges, s, t, <<d>>)
                 noTarget == shortestPathRoute(users, edges, t, s, <<d>>)
                 storeError == shortestPathRoute(users, edges, t, t, <<d>>)
             IN  /\ noSource.status \notin {200, 400}
                 /\ noTarget.status \notin {200, 400}
                 /\ noSource.status # storeError.status
                 /\ noSource # noTarget

---------------------------------------------------------------------------
(* C18 *)

Touches(e, id) == e.src = id \/ e.dst = id

\* what a delete of the node id, of the bag B of nodes, must do
Detached(B, C, id, deleted) ==
    /\ ~Exists(C, id)
    /\ \A e \in DOMAIN edges' : ~Touches(e, id)
    /\ \A n \in DOMAIN B \cup DOMAIN C :
         n.id # id => CopiesIn(n, C) = CopiesIn(n, B)
    /\ \A e \in DOMAIN edges \cup DOMAIN edges' :
         ~Touches(e, id) => CopiesIn(e, edges') = CopiesIn(e, edges)
    /\ deleted = Exists(B, id)
    /\ ~Exists(B, id) => (C = B /\ edges' = edges)

C18_Step ==
    IsCall =>
        CASE Made.op = "User.delete" ->
                 Detached(users, users', Made.id, Made.deleted) /\ txs' = txs
          [] Made.op = "Transaction.delete" ->
                 Detached(txs, txs', Made.id, Made.deleted) /\ users' = users
          [] OTHER ->
                 /\ \A n \in DOMAIN users : Exists(users', n.id)
                 /\ \A n \in DOMAIN txs : Exists(txs', n.id)

\* C18 (delete detaches): User.delete(id) and Transaction.delete(id) of a
\* stored node leave no node with that id and no edge from or to it, and
\* every other node and every edge between other nodes as it was; the call
\* returns true exactly when the node was stored, and a delete of an id that
\* is not stored changes nothing; no other operation removes a node.
C18_DeleteDetaches == [][C18_Step]_vars

\* u1 deleted after it got an edge from u2 and sent t1 to u2: u2, t1 and
\* the RECEIVED_BY edge t1 -> u2 are what is left
C18_Witness ==
    /\ Len(hist) = 4
    /\ Last.op = "User.delete" /\ Last.id = "u1" /\ Last.deleted
    /\ hist[3] = [txFull("t1") EXCEPT !.nodeId = "t1"]
    /\ ~Exists(users, "u1") /\ Exists(users, "u2") /\ Exists(txs, "t1")
    /\ DOMAIN edges = {e \in DOMAIN edges : e.kind = "RECEIVED_BY"}
    /\ NumEdges(edges, "RECEIVED_BY", "t1", "u2") = 1

---------------------------------------------------------------------------
(* C13 *)

\* the ids of the stored transactions whose attribute has the value v
Holders(attribute, v) == {n.id : n \in {m \in DOMAIN txs : m[attribute] = v}}

\* the values some stored transaction has for the attribute, null left out
Held(attribute) ==
    {n[attribute] : n \in DOMAIN txs} \ (IF attribute = "amount" THEN {} ELSE {""})

\* the store of the example: t1..t5 with one ip address, t6 with another,
\* no other transaction with an ip address
FiveAndOne ==
    /\ Holders("ipAddress", "1.2.3.4") = {"t1", "t2", "t3", "t4", "t5"}
    /\ Holders("ipAddress", "5.6.7.8") = {"t6"}
    /\ Held("ipAddress") = {"1.2.3.4", "5.6.7.8"}

\* C13 (cluster result): for a whitelisted attribute and minClusterSize k,
\* every list clusterTransactions may return has exactly one cluster for
\* each non-null value held by at least k transactions and no other
\* cluster; a cluster's ids are exactly the ids of the transactions holding
\* its value and clusterSize is their number; no id is in two clusters (so
\* a transaction with a null value is in none); sizes do not increase along
\* the list; and t1..t5 with one ip address, t6 with another, k = 3 give
\* one cluster, of size 5, with the ids t1..t5.
C13_ClusterResult ==
    /\ \A a \in validAttributes, k \in 1 .. MaxMinClusterSize :
         LET res == clusterTransactions(txs, a, k)
             big == {v \in Held(a) : Cardinality(Holders(a, v)) >= k}
         IN  /\ res.error = ""
             /\ res.results # {}
             /\ \A r \in res.results :
                  /\ \A v \in big : Cardinality({i \in 1 .. Len(r) : r[i].value = v}) = 1
                  /\ \A i \in 1 .. Len(r) :
                       /\ r[i].value \in big
                       /\ r[i].attribute = a
                       /\ BagToSet(r[i].transactionIds) = Holders(a, r[i].value)
                       /\ r[i].clusterSize = BagCardinality(r[i].transactionIds)
                       /\ r[i].clusterSize = Cardinality(Holders(a, r[i].value))
                  /\ \A i \in 1 .. Len(r), j \in 1 .. Len(r) :
                       i < j => /\ r[i].clusterSize >= r[j].clusterSize
                                /\ BagToSet(r[i].transactionIds)
                                     \cap BagToSet(r[j].transactionIds) = {}
    /\ FiveAndOne
         => \A r \in clusterTransactions(txs, "ipAddress", 3).results :
              /\ Len(r) = 1
              /\ r[1].clusterSize = 5
              /\ BagToSet(r[1].transactionIds) = {"t1", "t2", "t3", "t4", "t5"}

\* the example's store with t7, which has no ip address, added: one cluster
\* of five for k = 3, none for k = 6, two for k = 1
C13_Witness ==
    /\ FiveAndOne
    /\ Exists(txs, "t7")
    /\ \E r \in clusterTransactions(txs, "ipAddress", 3).results :
         Len(r) = 1 /\ r[1].clusterSize = 5
    /\ clusterTransactions(txs, "ipAddress", 6).results = {<< >>}
    /\ \E r \in clusterTransactions(txs, "ipAddress", 1).results : Len(r) = 2

---------------------------------------------------------------------------
(* C14 *)

\* C14 (cluster input rejection): clusterTransactions answers with an error
\* every call whose attribute is not one of ipAddress, deviceId, currency,
\* status, amount, and every call whose minClusterSize is not a positive
\* integer; such a call never gets a list of clusters, empty or not.
C14_ClusterRejects ==
    /\ \A a \in {"location", "timestamp", "id", ""}, k \in 1 .. MaxMinClusterSize :
         LET res == clusterTransactions(txs, a, k)
         IN  res.error # "" /\ res.results = {}
    /\ \A a \in validAttributes, k \in {-1, 0} :
         LET res == clusterTransactions(txs, a, k)
         IN  res.error # "" /\ res.results = {}

---------------------------------------------------------------------------
(* C15 *)

\* the node that formatGraphData made for the user or transaction id
IsNodeFor(n, kind, id) == n.classes = kind /\ n.data.id \in {id, kind \o "-" \o id}

HasNodeFor(nodes, kind, id) == \E i \in 1 .. Len(nodes) : IsNodeFor(nodes[i], kind, id)

\* C15 (assembler partial-failure safety): when the relationship request of
\* a user U fails, getCompleteGraph still returns, the graph made of its
\* result has a node for every user and every transaction of the store, U
\* included, has no edge that starts at U, and has exactly the edges of the
\* other users that it has when no request fails; among them one for each
\* relationship of the store from another user to a user.
C15_Step ==
    (IsCall /\ Made.op = "Graph.fetchData" /\ Made.failed # {}) =>
        LET g == formatGraphData(data')
            whole == formatGraphData(getCompleteGraph(users, txs, edges, {}))
            NotFromFailed(e) == \A u \in Made.failed : e.data.source # "user-" \o u
        IN  /\ \A n \in DOMAIN users : HasNodeFor(g.nodes, "user", n.id)
            /\ \A n \in DOMAIN txs : HasNodeFor(g.nodes, "transaction", n.id)
            /\ \A i \in 1 .. Len(g.edges) : NotFromFailed(g.edges[i])
            /\ g.edges = SelectSeq(whole.edges, NotFromFailed)
            /\ \A e \in DOMAIN edges :
                 (Exists(users, e.src) /\ Exists(users, e.dst)
                  /\ e.src \notin Made.failed) =>
                    \E i \in 1 .. Len(g.edges) :
                        /\ g.edges[i].data.source = "user-" \o e.src
                        /\ g.edges[i].data.target = "user-" \o e.dst
                        /\ g.edges[i].data.relationshipType = e.kind

C15_PartialFailure == [][C15_Step]_vars

\* u1 and u2 share an e-mail, the request for u1 has failed: the graph has
\* both users and the edge from u2 to u1 only
C15_Witness ==
    /\ Len(hist) > 0
    /\ Last.op = "Graph.fetchData"
    /\ Last.failed = {"u1"}
    /\ \E e \in DOMAIN edges : e.src = "u1" /\ e.dst = "u2"
    /\ LET g == formatGraphData(data)
       IN  /\ HasNodeFor(g.nodes, "user", "u1")
           /\ \E i \in 1 .. Len(g.edges) : g.edges[i].data.source = "user-u2"
           /\ \A i \in 1 .. Len(g.edges) : g.edges[i].data.source # "user-u1"

---------------------------------------------------------------------------
(* C16 *)

\* the ids the nodes of a formatted graph carry
NodeIds(g) == {g.nodes[i].data.id : i \in 1 .. Len(g.nodes)}

\* C16 (no dangling edges): whatever users, transactions and
\* userRelationships formatGraphData is given, every edge of the edge list
\* it returns has a source and a target that are ids of nodes of the node
\* list it returns.
C16_NoDanglingEdges ==
    LET g == formatGraphData(data)
    IN  \A i \in 1 .. Len(g.edges) :
            /\ g.edges[i].data.source \in NodeIds(g)
            /\ g.edges[i].data.target \in NodeIds(g)

---------------------------------------------------------------------------
(* C17 *)

IsEdge(element) == "source" \in DOMAIN element.data

\* the edges the component displays
Shown == SelectSeq(elements, IsEdge)

\* C17 (dropped-edge diagnostic): once the graph of a store with nodes has
\* been assembled, the statistics kept of it give the number of nodes and
\* the number of edges of the final graph and a count of the dropped edges,
\* which is the number of edges made less the number of edges kept.
C17_DroppedCount ==
    (Len(hist) > 0 /\ Last.op = "Graph.fetchData"
     /\ Len(formatGraphData(data).nodes) > 0) =>
        /\ dataStats.nodes = Len(elements) - Len(Shown)
        /\ dataStats.edges = Len(Shown)
        /\ "dropped" \in DOMAIN dataStats
        /\ dataStats.dropped = Len(formatGraphData(data).edges) - Len(Shown)

---------------------------------------------------------------------------
(* C19 *)

\* the number of edges of the class that start at the user
NumEdgesFrom(g, class, userId) ==
    Cardinality({i \in 1 .. Len(g.edges) :
                    /\ g.edges[i].classes = class
                    /\ g.edges[i].data.source = "user-" \o userId})

\* C19 (edge emission completeness): the graph made of what
\* getCompleteGraph returns, no request failing, has a node for every
\* connected user, every transaction, every participant of a transaction
\* and every counterpart of a transfer that the per-user results name, and,
\* these all being nodes, one edge from the user for each entry of its
\* connectedUsers, of its transactions and of its directTransfers.
C19_Step ==
    (IsCall /\ Made.op = "Graph.fetchData" /\ Made.failed = {}) =>
        LET g == formatGraphData(data')
            rels == data'.userRelationships
        IN  \A r \in 1 .. Len(rels) :
                LET rd == rels[r]
                    userId == rd.user.id
                IN  /\ \A i \in 1 .. Len(rd.connectedUsers) :
                         HasNodeFor(g.nodes, "user", rd.connectedUsers[i].user.id)
                    /\ \A i \in 1 .. Len(rd.transactions) :
                         /\ HasNodeFor(g.nodes, "transaction",
                                       rd.transactions[i].transaction.id)
                         /\ "connectedUser" \in DOMAIN rd.transactions[i] =>
                                HasNodeFor(g.nodes, "user",
                                           rd.transactions[i].connectedUser.id)
                    /\ \A i \in 1 .. Len(rd.directTransfers) :
                         HasNodeFor(g.nodes, "user", rd.directTransfers[i].user.id)
                    /\ NumEdgesFrom(g, "user-user", userId) = Len(rd.connectedUsers)
                    /\ NumEdgesFrom(g, "user-transaction", userId)
                           = Len(rd.transactions)
                    /\ NumEdgesFrom(g, "transfer", userId) = Len(rd.directTransfers)

C19_EdgeEmission == [][C19_Step]_vars

---------------------------------------------------------------------------
(* C20 *)

\* an edge of that source, target and kind is in the list
HasEdge(g, source, target, kind) ==
    \E i \in 1 .. Len(g.edges) :
        /\ g.edges[i].data.source = source
        /\ g.edges[i].data.target = target
        /\ g.edges[i].data.relationshipType = kind

\* no two edges of the list have the same id
DistinctIds(g) ==
    \A i, j \in 1 .. Len(g.edges) :
        g.edges[i].data.id = g.edges[j].data.id => i = j

\* every entry that names a connected user and a relationship, a
\* transaction, or the target user of a transfer has its edge in the list,
\* of the kind that the entry gives
KeptAll(d, g) ==
    \A r \in 1 .. Len(d.userRelationships) :
        LET rd == d.userRelationships[r]
            cu == ListField(rd, "connectedUsers")
            tx == ListField(rd, "transactions")
            dt == ListField(rd, "directTransfers")
            Kind(o, default) == IF "type" \in DOMAIN o /\ o.type # "" THEN o.type
                                ELSE default
        IN  IsRelation(rd) =>
              /\ \A i \in 1 .. Len(cu) :
                   ("user" \in DOMAIN cu[i] /\ "relationship" \in DOMAIN cu[i]) =>
                       HasEdge(g, "user-" \o rd.user.id, "user-" \o cu[i].user.id,
                               Kind(cu[i].relationship, "CONNECTED"))
              /\ \A i \in 1 .. Len(tx) :
                   HasId(tx[i]) =>
                       HasEdge(g, "user-" \o rd.user.id, "transaction-" \o tx[i].id,
                               "INVOLVED_IN")
              /\ \A i \in 1 .. Len(dt) :
                   "targetUser" \in DOMAIN dt[i] =>
                       HasEdge(g, "user-" \o rd.user.id,
                               "user-" \o dt[i].targetUser.id, Kind(dt[i], "TRANSFER"))

\* a relationship result given a second time adds no edge
SameTwice(d, g) ==
    \A r \in 1 .. Len(d.userRelationships) :
        formatGraphData([d EXCEPT !.userRelationships =
                            Append(d.userRelationships, d.userRelationships[r])]).edges
            = g.edges

\* C20 (edge deduplication): in the edge list that formatGraphData returns
\* no two edges have the same id, hence none the same source, target, kind
\* and ordinal; edges that differ in source, target or kind are both in it;
\* and a per-user relationship result given twice yields the edge list
\* that it yields given once.
C20_EdgeDedup ==
    LET g == formatGraphData(data)
    IN  /\ DistinctIds(g)
        /\ KeptAll(data, g)
        /\ SameTwice(data, g)

---------------------------------------------------------------------------
(* C24 *)

Upserts == {"User.createOrUpdate", "Transaction.createOrUpdate"}

\* C24 (inference is strictly additive): no User.createOrUpdate and no
\* Transaction.createOrUpdate removes an edge: every edge of the store is
\* there after the call, as many times as before.
C24_Step ==
    (IsCall /\ Made.op \in Upserts) =>
        \A e \in DOMAIN edges : CopiesIn(e, edges') >= CopiesIn(e, edges)

C24_Additive == [][C24_Step]_vars

\* u2 was linked to u1 by the e-mail e1 and has since been written with
\* e2: the edge of e1 is still there
C24_Witness ==
    /\ \E n \in DOMAIN users : n.id = "u2" /\ n.email = "e2"
    /\ \E n \in DOMAIN users : n.id = "u1" /\ n.email = "e1"
    /\ BagIn(Edge("SHARES_EMAIL", "u2", "u1", "e1"), edges)

---------------------------------------------------------------------------
(* C28 *)

UserToUser == {"SHARES_EMAIL", "SHARES_PHONE", "SHARES_ADDRESS",
               "SHARES_PAYMENT_METHOD", "TRANSFERRED_TO"}
TxToTx == {"SHARES_IP", "SHARES_DEVICE", "SHARES_LOCATION"}

\* C28 (referential integrity of the store): every edge starts and ends at
\* a node of the store, of the kinds its type asks for, and no edge made
\* by link detection starts and ends at the same node.
C28_Integrity ==
    \A e \in DOMAIN edges :
        /\ e.kind \in UserToUser => Exists(users, e.src) /\ Exists(users, e.dst)
        /\ e.kind = "SENT_MONEY" => Exists(users, e.src) /\ Exists(txs, e.dst)
        /\ e.kind = "RECEIVED_BY" => Exists(txs, e.src) /\ Exists(users, e.dst)
        /\ e.kind \in TxToTx => Exists(txs, e.src) /\ Exists(txs, e.dst)
        /\ e.kind \in UserToUser \cup TxToTx \cup {"SENT_MONEY", "RECEIVED_BY"}
        /\ e.kind # "TRANSFERRED_TO" => e.src # e.dst

\* u1, who sent t1 to u2, has been deleted: the edge from t1 to u2 is left
C28_Witness ==
    /\ Len(hist) > 0
    /\ Last.op = "User.delete" /\ Last.id = "u1" /\ Last.deleted
    /\ \E k \in Calls : hist[k].op = "Transaction.createOrUpdate"
                         /\ hist[k].fromUserId = "u1"
    /\ NumEdges(edges, "RECEIVED_BY", "t1", "u2") = 1
    /\ ~Exists(users, "u1")

---------------------------------------------------------------------------
(* C27 *)

\* C27 (single participant edge per transaction): however often a
\* transaction is written, with whatever amount, currency, sender and
\* receiver, at most one SENT_MONEY edge arrives at it and at most one
\* RECEIVED_BY edge leaves it, and these carry the amount and the currency
\* that the transaction node has.
C27_SingleParticipantEdge ==
    \A n \in DOMAIN txs :
        LET sent == {e \in DOMAIN edges : e.kind = "SENT_MONEY" /\ e.dst = n.id}
            received == {e \in DOMAIN edges : e.kind = "RECEIVED_BY" /\ e.src = n.id}
        IN  /\ SumOver(edges, sent) <= 1
            /\ SumOver(edges, received) <= 1
            /\ \A e \in sent \cup received : e.val = <<n.amount, n.currency>>

---------------------------------------------------------------------------
(* C21 *)

\* the orders in which n results can be collected
Orderings(n) == {p \in [1 .. n -> 1 .. n] : \A i, j \in 1 .. n : p[i] = p[j] => i = j}

\* the edges of a formatted graph as (id, source, target, kind)
EdgeKeys(g) ==
    {<<g.edges[i].data.id, g.edges[i].data.source, g.edges[i].data.target,
       g.edges[i].data.relationshipType>> : i \in 1 .. Len(g.edges)}

\* C21 (merge order-independence): in whatever order the per-user
\* relationship results stand in userRelationships, formatGraphData returns
\* the same set of node ids and the same set of edges (id, source, target,
\* kind).
C21_OrderIndependent ==
    LET rels == data.userRelationships
        g == formatGraphData(data)
    IN  \A p \in Orderings(Len(rels)) :
            LET h == formatGraphData([data EXCEPT !.userRelationships =
                                        [i \in 1 .. Len(rels) |-> rels[p[i]]]])
            IN  NodeIds(h) = NodeIds(g) /\ EdgeKeys(h) = EdgeKeys(g)


\* two users with a connection each: u2 shares the e-mail of u1, and u1
\* has transferred to u2
C21_Witness ==
    /\ Len(hist) > 0
    /\ Last.op = "Graph.fetchData"
    /\ Len(data.userRelationships) >= 2
    /\ \E i, j \in 1 .. Len(data.userRelationships) :
         /\ i # j
         /\ Len(data.userRelationships[i].connectedUsers) > 0
         /\ Len(data.userRelationships[j].connectedUsers) > 0
    /\ Cardinality(EdgeKeys(formatGraphData(data))) >= 2

---------------------------------------------------------------------------
(* C30 *)

\* the ids of the users that the involvedUsers of a result name
InvolvedIds(c) ==
    {c.involvedUsers[i].sender.id : i \in 1 .. Len(c.involvedUsers)}
    \cup {c.involvedUsers[i].receiver.id :
             i \in {j \in 1 .. Len(c.involvedUsers) :
                       "receiver" \in DOMAIN c.involvedUsers[j]}}

RelatedIds(c) ==
    {c.relatedTransactions[i].transaction.id : i \in 1 .. Len(c.relatedTransactions)}

\* C30 (transaction connections cover both participants): for every
\* stored transaction, getTransactionConnections names in involvedUsers
\* every user that a SENT_MONEY or a RECEIVED_BY edge joins to it, and in
\* relatedTransactions exactly the transactions at the end of the SHARES_*
\* edges that leave it.
C30_TransactionConnections ==
    \A n \in DOMAIN txs :
        LET c == getTransactionConnections(users, txs, edges, n.id)
        IN  /\ \A e \in DOMAIN edges :
                 /\ (e.kind = "SENT_MONEY" /\ e.dst = n.id) => e.src \in InvolvedIds(c)
                 /\ (e.kind = "RECEIVED_BY" /\ e.src = n.id) => e.dst \in InvolvedIds(c)
            /\ RelatedIds(c) = {e.dst : e \in {f \in DOMAIN edges :
                                                  f.kind \in TxToTx /\ f.src = n.id}}

---------------------------------------------------------------------------
(* C22 *)

\* C22 (concurrent writers are safe without locks): however the queries
\* of User.createOrUpdate and Transaction.createOrUpdate calls served at
\* the same time interleave, each query being atomic, the store never has
\* two nodes of one kind with the same id nor two edges with the same
\* source, target, kind and properties.
C22_NoDuplicates ==
    /\ \A n \in DOMAIN users : CountId(users, n.id) = 1
    /\ \A n \in DOMAIN txs : CountId(txs, n.id) = 1
    /\ \A e \in DOMAIN edges : CopiesIn(e, edges) = 1

\* the two users were written by two calls and nothing else, and each is
\* linked to the other: both nodes were merged before either scan
C22_Witness ==
    /\ Len(hist) = 2
    /\ \A p \in Procs : procs[p] = Idle
    /\ BagIn(Edge("SHARES_EMAIL", "u1", "u2", "e1"), edges)
    /\ BagIn(Edge("SHARES_EMAIL", "u2", "u1", "e1"), edges)

---------------------------------------------------------------------------
(* C26 *)

\* call i of the history wrote user id and returned normally
Wrote(i, id) ==
    /\ hist[i].op = "User.createOrUpdate"
    /\ hist[i].nodeId = id
    /\ ~hist[i].threw

\* C26 (concurrent upserts still link): once a call that writes u1 with
\* the e-mail e1 and a call that writes u2 with e1 have both returned,
\* however their queries interleaved, an edge SHARES_EMAIL joins the two
\* users, one way or the other.
C26_StillLinked ==
    (\E i, j \in Calls : Wrote(i, "u1") /\ Wrote(j, "u2")) =>
        \/ BagIn(Edge("SHARES_EMAIL", "u1", "u2", "e1"), edges)
        \/ BagIn(Edge("SHARES_EMAIL", "u2", "u1", "e1"), edges)

\* u1's call returned first and u2's second, and u1 is the one that found
\* the other: u2 had merged its node and scanned before u1 merged
C26_Witness ==
    /\ Len(hist) = 2
    /\ Wrote(1, "u1") /\ Wrote(2, "u2")
    /\ BagIn(Edge("SHARES_EMAIL", "u1", "u2", "e1"), edges)
    /\ ~BagIn(Edge("SHARES_EMAIL", "u2", "u1", "e1"), edges)

---------------------------------------------------------------------------
(* C23 *)

\* C23 (scoped session release): an operation that has finished, by a
\* normal return, an early return or a thrown error, has closed every
\* session it opened: with no operation in flight no session is open, and
\* never are more sessions closed than were opened.
C23_SessionsReleased ==
    /\ sessions >= 0
    /\ (\A p \in Procs : procs[p] = Idle) => sessions = 0

\* User.createOrUpdate has thrown out of a link query, with two sessions
\* open, and findShortestPath has thrown after its first query
C23_Witness ==
    /\ \A p \in Procs : procs[p] = Idle
    /\ sessions = 0
    /\ \E i \in Calls : hist[i].op = "User.createOrUpdate" /\ hist[i].threw
                         /\ Exists(users, "u1")
    /\ \E i \in Calls : hist[i].op = "findShortestPath" /\ hist[i].threw

---------------------------------------------------------------------------
(* C25, C29 *)

AllConstraints == {ConstraintNames[i] : i \in 1 .. Len(ConstraintNames)}

\* database initialization is over: nothing of it is running or scheduled
InitializationEnded == boot.phase \in {"done", "failed", "exited"}

\* C25 (bounded startup retry): initialization makes at most 5 attempts at
\* the constraint setup and makes none after a successful one; when it is
\* over, either both constraints were created or the process has exited:
\* the server never goes on after every attempt has failed.
C25_BoundedRetry ==
    /\ boot.attempt <= retries
    /\ boot.phase = "done" => boot.constraints = AllConstraints
    /\ InitializationEnded =>
           \/ boot.phase = "done"
           \/ boot.phase = "exited" /\ ~boot.listening

\* C29 (constraints before writes): a user or transaction upsert has been
\* handled only if initialization had finished creating both constraints;
\* none is handled while the setup is pending or after it failed.
C29_ConstraintsBeforeWrites ==
    hist # << >> => boot.phase = "done" /\ boot.constraints = AllConstraints

====
